---- MODULE Spec2Model ----
(***************************************************************************)
(* A model of the onnx-tensorrt importer: the ONNXParserErrorRecorder      *)
(* (onnxErrorRecorder.hpp/.cpp) as a set of threads stepping through its   *)
(* methods, and the operator importers of builtin_op_importers.cpp as      *)
(* functions from an importer context (network layers, tensor table) and   *)
(* a node to a new context and a result.                                   *)
(***************************************************************************)
EXTENDS Integers, Sequences, FiniteSets, TLC

VARIABLES
    \* ---- ONNXParserErrorRecorder ----
    mErrorStack,    \* std::vector<errorPair>: sequence of <<code, desc>>
    mStackLock,     \* std::mutex: 0 when free, else the holding thread
    mUserRecorder,  \* TRUE iff a user recorder was installed at creation
    mLogger,        \* TRUE iff a logger was given at creation
    pc,             \* per thread: position inside the method it runs
    call,           \* per thread: the call it makes (method and arguments)
    pushPos,        \* per thread: end position read by push_back
    ret,            \* per thread: the value its call returned
    userLog,        \* what mUserRecorder->reportError received, in order
    loggerLog,      \* what mLogger->log received, in order
    chk,            \* per thread: what invalidIndexCheck returned to it
    lockOrder,      \* history: the threads in order of lock acquisition
    appended,       \* history: the threads whose push_back completed
    seen,           \* history: per thread, the list when its accessor began
    mRefCount,      \* std::atomic<int32_t>: the reference count of the recorder
    life,           \* "unborn", "alive" or "deleted": the recorder object
    userRefCount,   \* the reference count of the user recorder
    holder,         \* per thread: its pointer, its references, its position
    counted,        \* history: the calls and the deletions so far
    \* ---- importer context and the node being lowered ----
    phase,          \* "idle", "presented", "lowered", "running", "finished"
    node,           \* the node handed to its importer, with its inputs
    net,            \* the network: the sequence of layers added so far
    tensors,        \* the context's tensor table: name -> TensorOrWeights
    result,         \* what the importer returned: status and outputs
    pre,            \* history: network and tensor table before the importer ran
    run,            \* the execution of a lowered loop: iteration and values
    \* ---- the table of operator importers ----
    builtin_op_importers,  \* string_map<NodeImporter>: set of <<op, importer>>
    NDEBUG,         \* TRUE iff the build compiles assert() away
    aborted,        \* TRUE iff an assert ended the process
    registering     \* the last call of registerBuiltinOpImporter, or <<>>

recVars == <<mErrorStack, mStackLock, mUserRecorder, mLogger, pc, call,
             pushPos, ret, userLog, loggerLog, chk, lockOrder, appended, seen>>

lowVars == <<phase, node, net, tensors, result, pre, run>>

regVars == <<builtin_op_importers, NDEBUG, aborted, registering>>

refVars == <<mRefCount, life, userRefCount, holder, counted>>

vars == <<recVars, lowVars, regVars, refVars>>

----------------------------------------------------------------------------
\* Bounds

NThreads == 3

\* the accessors are called with the indices -1 .. MaxIdx
MaxIdx == 2

Threads == 1..NThreads

----------------------------------------------------------------------------
\* ONNXParserErrorRecorder

\* nvinfer1::ErrorCode values used by the recorder's callers and accessors
kINVALID_ARGUMENT == "kINVALID_ARGUMENT"

OutOfRangeDesc == "errorIdx out of range."

\* the (code, description) pairs the threads report
Reports == { <<"kINTERNAL_ERROR", "a">>, <<"kUNSPECIFIED_ERROR", "b">> }

\* e.what() of an exception caught inside reportError
ExcWhat == "std::exception"

NoCall == [op |-> "none", val |-> "", desc |-> "", idx |-> 0]

Calls == { [op |-> "reportError", val |-> r[1], desc |-> r[2], idx |-> 0] :
              r \in Reports }
           \cup { [op |-> "clear", val |-> "", desc |-> "", idx |-> 0] }

AccessorCalls == { [op |-> o, val |-> "", desc |-> "", idx |-> i] :
                      o \in {"getErrorCode", "getErrorDesc"},
                      i \in (-1)..MaxIdx }

\* faulty variant: the guard does not wait for the mutex
LockFree_NoWait(t) == TRUE

\* faulty variant: the guard waits only for lower-numbered holders
LockFree_Partial(t) == mStackLock = 0 \/ mStackLock > t

\* std::lock_guard<std::mutex> guard(mStackLock): blocks until the mutex is free
LockFree(t) == mStackLock = 0

\* logError: forwards to the logger only when there is one
logError(log, str) == IF mLogger THEN Append(log, str) ELSE log

\* the operators whose importers are modelled, each registered once by its
\* DEFINE_BUILTIN_OP_IMPORTER before main begins
BuiltinOps ==
    {"Add", "AveragePool", "ConvTranspose", "DepthToSpace", "Div", "Gather",
     "Identity", "Loop", "LSTM", "Mul", "Pow", "Slice", "SpaceToDepth", "Sub",
     "Transpose", "TRT_Gather"}

RegistryAfterStartup ==
    /\ builtin_op_importers = { <<op, "import" \o op>> : op \in BuiltinOps }
    /\ NDEBUG \in {FALSE}
    /\ aborted = FALSE
    /\ registering = <<>>

\* no recorder was created yet; the user holds one reference to its own
\* recorder when there is one
NotCreated ==
    /\ mRefCount = 0
    /\ life = "unborn"
    /\ userRefCount = (IF mUserRecorder THEN 1 ELSE 0)
    /\ holder = [t \in Threads |->
                    [recorder |-> FALSE, refs |-> 0, pos |-> "idle", newVal |-> 0,
                     via |-> "none"]]
    /\ counted = [incs |-> 0, decs |-> 0, userIncs |-> 0, userDecs |-> 0,
                  deletes |-> 0, zeros |-> 0, created |-> <<>>, thrown |-> 0,
                  deletedVia |-> "none", destroyedNull |-> 0]

\* the recorder as create() returned it to thread 1
Created ==
    /\ mRefCount = 1
    /\ life = "alive"
    /\ userRefCount = (IF mUserRecorder THEN 2 ELSE 0)
    /\ holder = [t \in Threads |->
                    [recorder |-> t = 1, refs |-> (IF t = 1 THEN 1 ELSE 0), pos |-> "idle",
                     newVal |-> 0, via |-> "none"]]
    /\ counted = [incs |-> 1, decs |-> 0, userIncs |-> (IF mUserRecorder THEN 1 ELSE 0),
                  userDecs |-> 0, deletes |-> 0, zeros |-> 0, created |-> <<1>>,
                  thrown |-> 0, deletedVia |-> "none", destroyedNull |-> 0]

RecInit ==
    /\ mErrorStack = <<>>
    /\ mStackLock = 0
    /\ mUserRecorder \in BOOLEAN
    /\ mLogger \in BOOLEAN
    /\ pc = [t \in Threads |-> "idle"]
    /\ call = [t \in Threads |-> NoCall]
    /\ pushPos = [t \in Threads |-> 0]
    /\ ret = [t \in Threads |-> "none"]
    /\ userLog = <<>>
    /\ loggerLog = <<>>
    /\ chk = [t \in Threads |-> FALSE]
    /\ lockOrder = <<>>
    /\ appended = {}
    /\ seen = [t \in Threads |-> <<>>]
    /\ phase = "idle"
    /\ node = <<>>
    /\ net = <<>>
    /\ tensors = <<>>
    /\ result = <<>>
    /\ pre = <<>>
    /\ run = <<>>
    /\ RegistryAfterStartup
    /\ Created

\* a thread enters reportError(val, desc) or clear() and its lock_guard
\* constructor acquires the mutex
AcquireLock(t) ==
    /\ pc[t] = "idle"
    /\ LockFree(t)
    /\ \E c \in Calls :
          /\ call' = [call EXCEPT ![t] = c]
          /\ pc' = [pc EXCEPT ![t] = IF c.op = "clear" THEN "clear" ELSE "push"]
    /\ mStackLock' = t
    /\ lockOrder' = Append(lockOrder, t)
    /\ UNCHANGED <<mErrorStack, mUserRecorder, mLogger, pushPos, ret,
                   userLog, loggerLog, chk, appended, seen>>

\* clear(): mErrorStack.clear(), then the guard's scope ends
Clear(t) ==
    /\ pc[t] = "clear"
    /\ mErrorStack' = <<>>
    /\ mStackLock' = IF mStackLock = t THEN 0 ELSE mStackLock
    /\ ret' = [ret EXCEPT ![t] = "void"]
    /\ pc' = [pc EXCEPT ![t] = "done"]
    /\ UNCHANGED <<mUserRecorder, mLogger, call, pushPos, userLog, loggerLog,
                   lockOrder, chk, appended, seen>>

\* push_back, first half: the vector's end position is read
PushRead(t) ==
    /\ pc[t] = "push"
    /\ pushPos' = [pushPos EXCEPT ![t] = Len(mErrorStack)]
    /\ pc' = [pc EXCEPT ![t] = "store"]
    /\ UNCHANGED <<mErrorStack, mStackLock, mUserRecorder, mLogger, call, ret,
                   userLog, loggerLog, lockOrder, chk, appended, seen>>

\* what a vector slot outside the vector's current bounds holds
Undefined == <<"undefined", "undefined">>

\* the vector after a pair is stored at position pos (counted from 0) and its
\* end is moved one past it
StoreAt(stack, pos, pair) ==
    [i \in 1..(pos + 1) |->
        IF i = pos + 1 THEN pair
        ELSE IF i <= Len(stack) THEN stack[i] ELSE Undefined]

\* push_back, second half: the pair is stored at the position read and the
\* end moves one past it
PushStore(t) ==
    /\ pc[t] = "store"
    /\ mErrorStack' = StoreAt(mErrorStack, pushPos[t],
                              <<call[t].val, call[t].desc>>)
    /\ appended' = appended \cup {t}
    /\ pc' = [pc EXCEPT ![t] = "forward"]
    /\ UNCHANGED <<mStackLock, mUserRecorder, mLogger, call, pushPos, ret,
                   userLog, loggerLog, lockOrder, chk, seen>>

\* push_back (or the construction of the pair) throws: the guard is released
\* by unwinding and control reaches the catch block
PushThrow(t) ==
    /\ pc[t] = "store"
    /\ mStackLock' = IF mStackLock = t THEN 0 ELSE mStackLock
    /\ pc' = [pc EXCEPT ![t] = "catch"]
    /\ UNCHANGED <<mErrorStack, mUserRecorder, mLogger, call, pushPos, ret,
                   userLog, loggerLog, lockOrder, chk, appended, seen>>

\* the value reportError returns: all errors are considered fatal
reportErrorResult == "true"

\* faulty variant: the pair is logged even when it goes to the user recorder
Forward_Both(t) ==
    /\ pc[t] = "forward"
    /\ userLog' = (IF mUserRecorder
                   THEN Append(userLog, <<call[t].val, call[t].desc>>)
                   ELSE userLog)
    /\ loggerLog' = logError(loggerLog, call[t].desc)
    /\ mStackLock' = IF mStackLock = t THEN 0 ELSE mStackLock
    /\ ret' = [ret EXCEPT ![t] = reportErrorResult]
    /\ pc' = [pc EXCEPT ![t] = "done"]
    /\ UNCHANGED <<mErrorStack, mUserRecorder, mLogger, call, pushPos,
                   lockOrder, chk, appended, seen>>

\* if (mUserRecorder) mUserRecorder->reportError(val, desc);
\* else logError(mLogger, desc);   then the guard's scope ends; return true
Forward(t) ==
    /\ pc[t] = "forward"
    /\ IF mUserRecorder
         THEN /\ userLog' = Append(userLog, <<call[t].val, call[t].desc>>)
              /\ loggerLog' = loggerLog
         ELSE /\ loggerLog' = logError(loggerLog, call[t].desc)
              /\ userLog' = userLog
    /\ mStackLock' = IF mStackLock = t THEN 0 ELSE mStackLock
    /\ ret' = [ret EXCEPT ![t] = reportErrorResult]
    /\ pc' = [pc EXCEPT ![t] = "done"]
    /\ UNCHANGED <<mErrorStack, mUserRecorder, mLogger, call, pushPos,
                   lockOrder, chk, appended, seen>>

\* the user recorder's reportError is entered and throws
ForwardThrow(t) ==
    /\ pc[t] = "forward"
    /\ mUserRecorder
    /\ userLog' = Append(userLog, <<call[t].val, call[t].desc>>)
    /\ mStackLock' = IF mStackLock = t THEN 0 ELSE mStackLock
    /\ pc' = [pc EXCEPT ![t] = "catch"]
    /\ UNCHANGED <<mErrorStack, mUserRecorder, mLogger, call, pushPos, ret,
                   loggerLog, lockOrder, chk, appended, seen>>

\* catch (const std::exception& e) { logError(mLogger, e.what()); }
\* return true
Catch(t) ==
    /\ pc[t] = "catch"
    /\ loggerLog' = logError(loggerLog, ExcWhat)
    /\ ret' = [ret EXCEPT ![t] = reportErrorResult]
    /\ pc' = [pc EXCEPT ![t] = "done"]
    /\ UNCHANGED <<mErrorStack, mStackLock, mUserRecorder, mLogger, call,
                   pushPos, userLog, lockOrder, chk, appended, seen>>

\* size_t sIndex = index: the conversion of an int32_t to the unsigned
\* size_t adds the modulus to a negative value. TLC's integers are 32 bits
\* wide, so the modulus 2^64 is scaled to 2^30; all that is used of it is
\* that it exceeds every index and every list length by far.
SizeTModulus == 2^30

ToSizeT(index) == IF index < 0 THEN SizeTModulus + index ELSE index

\* faulty variant: the index is compared as a signed value
invalidIndexCheck_Signed(index) == index >= Len(mErrorStack)

\* invalidIndexCheck: return sIndex >= mErrorStack.size();
invalidIndexCheck(index) == ToSizeT(index) >= Len(mErrorStack)

\* operator[]: return mErrorStack[index];
ElementAt(index) ==
    IF index + 1 \in DOMAIN mErrorStack THEN mErrorStack[index + 1]
    ELSE Undefined

\* getNbErrors: return mErrorStack.size();
getNbErrors == Len(mErrorStack)

\* getErrorCode / getErrorDesc, the condition of the ?: is evaluated: a thread
\* enters the accessor and invalidIndexCheck(errorIdx) returns
AccessCheck(t) ==
    /\ pc[t] = "idle"
    /\ \E c \in AccessorCalls :
          /\ call' = [call EXCEPT ![t] = c]
          /\ chk' = [chk EXCEPT ![t] = invalidIndexCheck(c.idx)]
    /\ seen' = [seen EXCEPT ![t] = mErrorStack]
    /\ pc' = [pc EXCEPT ![t] = "read"]
    /\ UNCHANGED <<mErrorStack, mStackLock, mUserRecorder, mLogger, pushPos,
                   ret, userLog, loggerLog, lockOrder, appended>>

\* getErrorCode / getErrorDesc, the chosen branch of the ?: is evaluated:
\* the constant, or (*this)[errorIdx].first / .second.c_str()
AccessRead(t) ==
    /\ pc[t] = "read"
    /\ ret' = [ret EXCEPT ![t] =
                 IF call[t].op = "getErrorCode"
                 THEN (IF chk[t] THEN kINVALID_ARGUMENT
                       ELSE ElementAt(call[t].idx)[1])
                 ELSE (IF chk[t] THEN OutOfRangeDesc
                       ELSE ElementAt(call[t].idx)[2])]
    /\ pc' = [pc EXCEPT ![t] = "done"]
    /\ UNCHANGED <<mErrorStack, mStackLock, mUserRecorder, mLogger, call,
                   pushPos, userLog, loggerLog, chk, lockOrder, appended, seen>>

\* the steps of reportError and clear
RecNext ==
    \E t \in Threads :
        \/ AcquireLock(t) /\ UNCHANGED <<lowVars, regVars, refVars>>
        \/ Clear(t) /\ UNCHANGED <<lowVars, regVars, refVars>>
        \/ PushRead(t) /\ UNCHANGED <<lowVars, regVars, refVars>>
        \/ PushStore(t) /\ UNCHANGED <<lowVars, regVars, refVars>>
        \/ PushThrow(t) /\ UNCHANGED <<lowVars, regVars, refVars>>
        \/ Forward(t) /\ UNCHANGED <<lowVars, regVars, refVars>>
        \/ ForwardThrow(t) /\ UNCHANGED <<lowVars, regVars, refVars>>
        \/ Catch(t) /\ UNCHANGED <<lowVars, regVars, refVars>>

\* reportError and clear called from NThreads threads at once
SpecRec == RecInit /\ [][RecNext]_vars

\* the callers take their turns in order: every earlier call has returned
\* and no later call has begun
Quiet(t) ==
    /\ \A u \in Threads : u < t => pc[u] = "done"
    /\ \A u \in Threads : u > t => pc[u] = "idle"

SeqNext ==
    \E t \in Threads :
        \/ Quiet(t) /\ AcquireLock(t) /\ UNCHANGED <<lowVars, regVars, refVars>>
        \/ Quiet(t) /\ Clear(t) /\ UNCHANGED <<lowVars, regVars, refVars>>
        \/ Quiet(t) /\ PushRead(t) /\ UNCHANGED <<lowVars, regVars, refVars>>
        \/ Quiet(t) /\ PushStore(t) /\ UNCHANGED <<lowVars, regVars, refVars>>
        \/ Quiet(t) /\ PushThrow(t) /\ UNCHANGED <<lowVars, regVars, refVars>>
        \/ Quiet(t) /\ Forward(t) /\ UNCHANGED <<lowVars, regVars, refVars>>
        \/ Quiet(t) /\ ForwardThrow(t) /\ UNCHANGED <<lowVars, regVars, refVars>>
        \/ Quiet(t) /\ Catch(t) /\ UNCHANGED <<lowVars, regVars, refVars>>
        \/ Quiet(t) /\ AccessCheck(t) /\ UNCHANGED <<lowVars, regVars, refVars>>
        \/ Quiet(t) /\ AccessRead(t) /\ UNCHANGED <<lowVars, regVars, refVars>>

\* NThreads calls of reportError, clear and the accessors, one after another
SpecSeq == RecInit /\ [][SeqNext]_vars


\* getNbErrors called by a thread: the size is read, without the mutex
AccessSize(t) ==
    /\ pc[t] = "idle"
    /\ call' = [call EXCEPT ![t] = [op |-> "getNbErrors", val |-> "", desc |-> "", idx |-> 0]]
    /\ ret' = [ret EXCEPT ![t] = getNbErrors]
    /\ seen' = [seen EXCEPT ![t] = mErrorStack]
    /\ pc' = [pc EXCEPT ![t] = "done"]
    /\ UNCHANGED <<mErrorStack, mStackLock, mUserRecorder, mLogger, pushPos,
                   userLog, loggerLog, chk, lockOrder, appended>>

\* the steps of the accessors, which take no lock, among those of
\* reportError and clear
AccNext ==
    \E t \in Threads :
        \/ AcquireLock(t) /\ UNCHANGED <<lowVars, regVars, refVars>>
        \/ Clear(t) /\ UNCHANGED <<lowVars, regVars, refVars>>
        \/ PushRead(t) /\ UNCHANGED <<lowVars, regVars, refVars>>
        \/ PushStore(t) /\ UNCHANGED <<lowVars, regVars, refVars>>
        \/ PushThrow(t) /\ UNCHANGED <<lowVars, regVars, refVars>>
        \/ Forward(t) /\ UNCHANGED <<lowVars, regVars, refVars>>
        \/ ForwardThrow(t) /\ UNCHANGED <<lowVars, regVars, refVars>>
        \/ Catch(t) /\ UNCHANGED <<lowVars, regVars, refVars>>
        \/ AccessSize(t) /\ UNCHANGED <<lowVars, regVars, refVars>>
        \/ AccessCheck(t) /\ UNCHANGED <<lowVars, regVars, refVars>>
        \/ AccessRead(t) /\ UNCHANGED <<lowVars, regVars, refVars>>

\* reportError, clear and the accessors called from NThreads threads at once
SpecAcc == RecInit /\ [][AccNext]_vars

----------------------------------------------------------------------------
\* The life of the recorder: create, incRefCount, decRefCount, destroy

\* most calls of incRefCount, the one of create() among them
MaxRefs == 3

\* before create(): the recorder fields as RecInit has them, no object yet
RefInit ==
    /\ mErrorStack = <<>>
    /\ mStackLock = 0
    /\ mUserRecorder \in BOOLEAN
    /\ mLogger \in BOOLEAN
    /\ pc = [t \in Threads |-> "idle"]
    /\ call = [t \in Threads |-> NoCall]
    /\ pushPos = [t \in Threads |-> 0]
    /\ ret = [t \in Threads |-> "none"]
    /\ userLog = <<>>
    /\ loggerLog = <<>>
    /\ chk = [t \in Threads |-> FALSE]
    /\ lockOrder = <<>>
    /\ appended = {}
    /\ seen = [t \in Threads |-> <<>>]
    /\ phase = "idle"
    /\ node = <<>>
    /\ net = <<>>
    /\ tensors = <<>>
    /\ result = <<>>
    /\ pre = <<>>
    /\ run = <<>>
    /\ RegistryAfterStartup
    /\ NotCreated

RefUnchanged ==
    UNCHANGED <<mErrorStack, mStackLock, mUserRecorder, mLogger, pc, call, pushPos, ret,
                userLog, chk, lockOrder, appended, seen, lowVars, regVars>>

\* create(logger, otherRecorder): new runs the constructor, which takes a
\* reference to the user recorder if there is one; then incRefCount
create(t) ==
    /\ life = "unborn"
    /\ holder[t].pos = "idle"
    /\ life' = "alive"
    /\ userRefCount' = (IF mUserRecorder THEN userRefCount + 1 ELSE userRefCount)
    /\ mRefCount' = mRefCount + 1
    /\ holder' = [holder EXCEPT ![t].recorder = TRUE, ![t].refs = 1]
    /\ counted' = [counted EXCEPT !.incs = @ + 1,
                                  !.userIncs = (IF mUserRecorder THEN @ + 1 ELSE @),
                                  !.created = Append(@, mRefCount + 1)]
    /\ UNCHANGED loggerLog
    /\ RefUnchanged

\* create() when new throws: the exception is logged, nullptr is returned
createThrows(t) ==
    /\ life = "unborn"
    /\ holder[t].pos = "idle"
    /\ counted.thrown = 0
    /\ loggerLog' = logError(loggerLog, ExcWhat)
    /\ counted' = [counted EXCEPT !.thrown = @ + 1]
    /\ UNCHANGED <<mRefCount, life, userRefCount, holder>>
    /\ RefUnchanged

\* incRefCount(): ++mRefCount in one atomic step; thread t, which holds a
\* reference, takes one more for thread u
incRefCount(t, u) ==
    /\ life = "alive"
    /\ holder[t].recorder /\ holder[t].refs > 0 /\ holder[t].pos = "idle"
    /\ counted.incs < MaxRefs
    /\ mRefCount' = mRefCount + 1
    /\ holder' = [holder EXCEPT ![u].recorder = TRUE, ![u].refs = @ + 1]
    /\ counted' = [counted EXCEPT !.incs = @ + 1]
    /\ UNCHANGED <<life, userRefCount, loggerLog>>
    /\ RefUnchanged

\* auto newVal = --mRefCount, in one atomic step, on behalf of the call via
Decrement(t, via) ==
    /\ life = "alive"
    /\ holder[t].recorder /\ holder[t].refs > 0 /\ holder[t].pos = "idle"
    /\ mRefCount' = mRefCount - 1
    /\ holder' = [holder EXCEPT ![t].refs = @ - 1, ![t].pos = "decremented",
                                ![t].newVal = mRefCount - 1, ![t].via = via]
    /\ counted' = [counted EXCEPT !.decs = @ + 1,
                                  !.zeros = (IF mRefCount - 1 = 0 THEN @ + 1 ELSE @)]
    /\ UNCHANGED <<life, userRefCount, loggerLog>>
    /\ RefUnchanged

\* decRefCount() called by a holder of a reference: the decrement
decRefCount(t) ==
    /\ holder[t].recorder
    /\ Decrement(t, "decRefCount")

\* destroy(recorder) with a pointer that is not null: recorder->decRefCount()
destroy(t) ==
    /\ holder[t].recorder
    /\ Decrement(t, "destroy")

\* destroy(recorder) with a null pointer: nothing happens
destroyNull(t) ==
    /\ ~holder[t].recorder
    /\ holder[t].pos = "idle"
    /\ counted.destroyedNull = 0
    /\ counted' = [counted EXCEPT !.destroyedNull = @ + 1]
    /\ UNCHANGED <<mRefCount, life, userRefCount, holder, loggerLog>>
    /\ RefUnchanged

\* the variant that deletes the recorder with a reference left
deleteThis_Early(t) ==
    /\ holder[t].pos = "decremented"
    /\ LET deleting == holder[t].newVal <= 1
       IN  /\ life' = (IF deleting THEN "deleted" ELSE life)
           /\ userRefCount' = (IF deleting /\ mUserRecorder THEN userRefCount - 1
                               ELSE userRefCount)
           /\ counted' = [counted EXCEPT
                            !.deletes = (IF deleting THEN @ + 1 ELSE @),
                            !.userDecs = (IF deleting /\ mUserRecorder THEN @ + 1 ELSE @),
                            !.deletedVia = (IF deleting THEN holder[t].via ELSE @)]
    /\ holder' = [holder EXCEPT ![t].pos = "idle", ![t].newVal = 0, ![t].via = "none",
                                ![t].recorder = (IF holder[t].via = "destroy" THEN FALSE ELSE @)]
    /\ UNCHANGED <<mRefCount, loggerLog>>
    /\ RefUnchanged

\* if (newVal == 0) delete this: the destructor releases the user recorder
\* if there is one; then decRefCount returns, and destroy sets the pointer
\* of its caller to null
deleteThis(t) ==
    /\ holder[t].pos = "decremented"
    /\ LET deleting == holder[t].newVal = 0
       IN  /\ life' = (IF deleting THEN "deleted" ELSE life)
           /\ userRefCount' = (IF deleting /\ mUserRecorder THEN userRefCount - 1
                               ELSE userRefCount)
           /\ counted' = [counted EXCEPT
                            !.deletes = (IF deleting THEN @ + 1 ELSE @),
                            !.userDecs = (IF deleting /\ mUserRecorder THEN @ + 1 ELSE @),
                            !.deletedVia = (IF deleting THEN holder[t].via ELSE @)]
    /\ holder' = [holder EXCEPT ![t].pos = "idle", ![t].newVal = 0, ![t].via = "none",
                                ![t].recorder = (IF holder[t].via = "destroy" THEN FALSE ELSE @)]
    /\ UNCHANGED <<mRefCount, loggerLog>>
    /\ RefUnchanged

RefNext ==
    \E t \in Threads :
        \/ create(t)
        \/ createThrows(t)
        \/ \E u \in Threads : incRefCount(t, u)
        \/ decRefCount(t)
        \/ destroy(t)
        \/ destroyNull(t)
        \/ deleteThis(t)

SpecRef == RefInit /\ [][RefNext]_vars

----------------------------------------------------------------------------
\* The importers of builtin_op_importers.cpp.  An importer takes the context
\* (the network built so far and the table of named tensors) and a node with
\* its resolved inputs, and returns a status, the outputs, and the context
\* as it left it.

\* ranks of the data tensors handed to the importers: 1..MaxRank
MaxRank == 2

\* extents of their dimensions: 1..MaxExtent
MaxExtent == 2

\* ---- TensorOrWeights ----

NoId == [layer |-> 0, out |-> 0, name |-> "", val |-> 0]

\* a tensor that enters the network from outside; val is the (scalar) value
\* it carries when the network runs
InputId(name, v) == [layer |-> 0, out |-> 1, name |-> name, val |-> v]

\* output k of the l-th layer of the network
OutputId(l, k) == [layer |-> l, out |-> k, name |-> "", val |-> 0]

Tensor(id, dims, dtype) ==
    [kind |-> "tensor", id |-> id, dims |-> dims, dtype |-> dtype, vals |-> <<>>]

Weights(dims, dtype, vals) ==
    [kind |-> "weights", id |-> NoId, dims |-> dims, dtype |-> dtype, vals |-> vals]

\* an omitted optional input
NullValue ==
    [kind |-> "null", id |-> NoId, dims |-> <<>>, dtype |-> "", vals |-> <<>>]

RECURSIVE Volume(_)
Volume(d) == IF d = <<>> THEN 1 ELSE Head(d) * Volume(Tail(d))

Zeros(k) == [i \in 1..k |-> 0]

Ones(k) == [i \in 1..k |-> 1]

\* ---- NodeImportResult ----

kSUCCESS == "kSUCCESS"

\* the importer returns its outputs
Succeed(n, tt, outs) ==
    [status |-> kSUCCESS, net |-> n, tensors |-> tt, outputs |-> outs]

\* an ASSERT or TRT_CHECK returns the error; what was added stays added
Fail(code, n, tt) ==
    [status |-> code, net |-> n, tensors |-> tt, outputs |-> <<>>]

\* the failure of normalizeAxis
InvalidAttribute == "InvalidAttribute"

\* OnnxAttrs::count and OnnxAttrs::get with a default
HasAttr(nd, a) == a \in DOMAIN nd.attrs

AttrGet(nd, a, default) == IF HasAttr(nd, a) THEN nd.attrs[a] ELSE default

NoAttrs == [a \in {} |-> 0]

\* ---- the network ----

\* network()->addX(...): the layer is appended, its first output is returned
addLayer(n, L) ==
    [net |-> Append(n, L), t |-> Tensor(OutputId(Len(n) + 1, 1), L.dims, L.dtype)]

\* IRecurrenceLayer::setInput(1, update): the update of the recurrence made
\* by layer sv; the layer keeps every update it was given and the number of
\* layers the network had then
setUpdate(n, sv, update) ==
    [n EXCEPT ![sv].ins = <<@[1], update>>,
              ![sv].updates = Append(@, [id |-> update, at |-> Len(n)])]

\* asTensor: a tensor is returned as it is, weights become a constant layer
convertToTensor(n, v) ==
    IF v.kind = "tensor"
    THEN [net |-> n, t |-> v]
    ELSE addLayer(n, [type |-> "constant", ins |-> <<>>, dims |-> v.dims,
                      dtype |-> v.dtype, vals |-> v.vals])

\* addConstantScalar and addConstant: a constant layer of the given values
addConstant(n, values, type, shape) ==
    addLayer(n, [type |-> "constant", ins |-> <<>>, dims |-> shape,
                 dtype |-> type, vals |-> values])

addConstantScalar(n, scalar, type, shape) == addConstant(n, <<scalar>>, type, shape)

\* normalizeAxis: a negative axis counts from the end
convert_axis(axis, nbDims) ==
    LET a == IF axis < 0 THEN axis + nbDims ELSE axis
    IN  [ok |-> a >= 0 /\ a < nbDims, axis |-> a]

\* ---- Gather ----

\* dimensions of a gather along axis: the axis is replaced by the indices
GatherDims(d, idx, axis) ==
    SubSeq(d, 1, axis) \o idx \o SubSeq(d, axis + 2, Len(d))

importGather(ctx, nd) ==
    LET c0 == convertToTensor(ctx.net, nd.inputs[1])
        c1 == convertToTensor(c0.net, nd.inputs[2])
        nbDims == Len(nd.inputs[1].dims)
        ax == convert_axis(AttrGet(nd, "axis", 0), nbDims)
    IN  IF ~ax.ok
        THEN Fail(InvalidAttribute, c1.net, ctx.tensors)
        ELSE LET g == addLayer(c1.net,
                        [type |-> "gather", ins |-> <<c0.t.id, c1.t.id>>,
                         dims |-> GatherDims(c0.t.dims, c1.t.dims, ax.axis),
                         dtype |-> c0.t.dtype, axis |-> ax.axis,
                         rank |-> nbDims])
             IN  Succeed(g.net, ctx.tensors, <<g.t>>)

importTRT_Gather(ctx, nd) ==
    LET data == nd.inputs[1]
        indices == nd.inputs[2]
        axis == AttrGet(nd, "axis", 0)
        r == Len(data.dims)
        a == IF axis < 0 THEN axis + r ELSE axis
    IN  IF data.kind # "tensor" THEN Fail("kUNSUPPORTED_NODE", ctx.net, ctx.tensors)
        ELSE IF indices.kind # "tensor" THEN Fail("kUNSUPPORTED_NODE", ctx.net, ctx.tensors)
        ELSE IF indices.dtype # "INT32" THEN Fail("kINVALID_NODE", ctx.net, ctx.tensors)
        ELSE IF axis = -r THEN Fail("kUNSUPPORTED_NODE", ctx.net, ctx.tensors)
        ELSE IF ~(r >= 1) THEN Fail("kINVALID_NODE", ctx.net, ctx.tensors)
        ELSE IF ~(-r <= axis /\ axis <= r) THEN Fail("kINVALID_NODE", ctx.net, ctx.tensors)
        ELSE LET g == addLayer(ctx.net,
                        [type |-> "gather", ins |-> <<data.id, indices.id>>,
                         dims |-> GatherDims(data.dims, indices.dims, a),
                         dtype |-> data.dtype, axis |-> a, rank |-> r])
             IN  Succeed(g.net, ctx.tensors, <<g.t>>)

\* ---- Slice ----

\* weightsToVector: the values of an INT32 or INT64 initializer; on failure
\* the vector is left as it was (empty), and importSlice drops the status
\* the Status weightsToVector returns
weightsToVectorStatus(v) ==
    IF v.kind # "weights" THEN "kUNSUPPORTED_NODE"
    ELSE IF v.dtype \notin {"INT32", "INT64"} THEN "kINVALID_NODE"
    ELSE kSUCCESS

weightsToVector(v) ==
    IF v.kind = "weights" /\ v.dtype \in {"INT32", "INT64"} THEN v.vals ELSE <<>>

Iota(k) == [i \in 1..k |-> i - 1]

Max(a, b) == IF a >= b THEN a ELSE b

Min(a, b) == IF a <= b THEN a ELSE b

\* static_cast<int>(std::ceil(static_cast<float>(a) / b)), b # 0
CeilDiv(a, b) == IF b > 0 THEN -((-a) \div b) ELSE -(a \div (-b))

\* the starts, ends, axes and steps of the node: inputs from opset 10 on,
\* attributes before
SliceArgsOf(nd) ==
    IF nd.opset >= 10
    THEN LET starts == weightsToVector(nd.inputs[2])
             n == Len(nd.inputs)
         IN  [starts |-> starts,
              ends |-> weightsToVector(nd.inputs[3]),
              axes |-> IF n > 3 /\ nd.inputs[4].kind # "null"
                       THEN weightsToVector(nd.inputs[4])
                       ELSE Iota(Len(starts)),
              steps |-> IF n > 4 /\ nd.inputs[5].kind # "null"
                        THEN weightsToVector(nd.inputs[5])
                        ELSE Ones(Len(starts))]
    ELSE [starts |-> nd.attrs.starts,
          ends |-> nd.attrs.ends,
          axes |-> AttrGet(nd, "axes", Iota(Len(nd.attrs.starts))),
          steps |-> Ones(Len(nd.attrs.starts))]

\* the Status of each call of weightsToVector importSlice makes, in order
SliceConversions(nd) ==
    LET n == Len(nd.inputs)
    IN  IF nd.opset < 10 \/ ~(n >= 3 /\ n <= 5) THEN <<>>
        ELSE <<weightsToVectorStatus(nd.inputs[2]), weightsToVectorStatus(nd.inputs[3])>>
             \o (IF n > 3 /\ nd.inputs[4].kind # "null"
                 THEN <<weightsToVectorStatus(nd.inputs[4])>> ELSE <<>>)
             \o (IF n > 4 /\ nd.inputs[5].kind # "null"
                 THEN <<weightsToVectorStatus(nd.inputs[5])>> ELSE <<>>)

\* one turn of the loop over the axes; st holds sliceStart, sliceSize and
\* sliceStride (sliceEnd is only used within the turn)
SliceAxis(a, dims, i, st) ==
    LET ax == convert_axis(a.axes[i], Len(dims))
        axis == ax.axis + 1
        step == a.steps[i]
        upperlimit == IF step < 0 THEN dims[axis] - 1 ELSE dims[axis]
        lowerlimit == IF step < 0 THEN -1 ELSE 0
        start == IF a.starts[i] < 0
                 THEN Max(dims[axis] + a.starts[i], lowerlimit)
                 ELSE Min(a.starts[i], upperlimit)
        end == IF a.ends[i] < 0
               THEN Max(dims[axis] + a.ends[i], lowerlimit)
               ELSE Min(a.ends[i], upperlimit)
    IN  IF ~ax.ok THEN [st EXCEPT !.status = InvalidAttribute]
        ELSE IF a.starts[i] = 0 /\ a.ends[i] >= dims[axis] /\ step = 1 THEN st
        ELSE IF step = 0 THEN [st EXCEPT !.status = "kINVALID_VALUE"]
        ELSE [st EXCEPT !.start[axis] = start,
                        !.stride[axis] = step,
                        !.size[axis] = Max(CeilDiv(end - start, step), 0)]

RECURSIVE SliceAxes(_, _, _, _)
SliceAxes(a, dims, i, st) ==
    IF i > Len(a.axes) \/ st.status # kSUCCESS
    THEN st
    ELSE SliceAxes(a, dims, i + 1, SliceAxis(a, dims, i, st))

importSlice(ctx, nd) ==
    LET c == convertToTensor(ctx.net, nd.inputs[1])
        tensor == c.t
        nbInputs == Len(nd.inputs)
        a == SliceArgsOf(nd)
        dims == tensor.dims
        nbDims == Len(dims)
        st == SliceAxes(a, dims, 1,
                  [status |-> kSUCCESS, start |-> Zeros(nbDims),
                   size |-> dims, stride |-> Ones(nbDims)])
    IN  IF nd.opset >= 10 /\ ~(nbInputs >= 3 /\ nbInputs <= 5)
        THEN Fail("kUNSUPPORTED_NODE", c.net, ctx.tensors)
        ELSE IF st.status # kSUCCESS
        THEN Fail(st.status, c.net, ctx.tensors)
        ELSE IF st.size = Zeros(nbDims)
        THEN Succeed(c.net, ctx.tensors, <<tensor>>)
        ELSE IF \E i \in 1..Len(a.axes) : st.size[i] = 0
        THEN Fail("kINVALID_VALUE", c.net, ctx.tensors)
        ELSE LET s == addLayer(c.net,
                        [type |-> "slice", ins |-> <<tensor.id>>,
                         dims |-> st.size, dtype |-> tensor.dtype,
                         start |-> st.start, size |-> st.size,
                         stride |-> st.stride])
             IN  Succeed(s.net, ctx.tensors, <<s.t>>)

\* ---- elementwise operators ----

\* reshape_tensor: a shuffle layer that reshapes to new_shape
reshape_tensor(n, t, new_shape) ==
    addLayer(n, [type |-> "shuffle", ins |-> <<t.id>>, dims |-> new_shape,
                 dtype |-> t.dtype])

\* expand_dims: the shape padded with leading ones up to ndim_new
expand_dims(dims, ndim_new) == Ones(ndim_new - Len(dims)) \o dims

\* identity: an identity layer over the tensor
identity(n, t) ==
    addLayer(n, [type |-> "identity", ins |-> <<t.id>>, dims |-> t.dims,
                 dtype |-> t.dtype])

\* explicit broadcasting of opset < 7: rhs gets axis leading ones and as many
\* trailing ones as lhs has dimensions left; returns the new rhs
applyLegacyBinaryOpBroadcasting(n, nd, lhs, rhs) ==
    LET lhs_ndim == Len(lhs.dims)
        rhs_ndim == Len(rhs.dims)
        broadcasting_on == /\ HasAttr(nd, "axis")
                           /\ HasAttr(nd, "broadcast")
                           /\ nd.attrs.broadcast # 0
        axis == IF nd.attrs.axis < 0 THEN nd.attrs.axis + lhs_ndim ELSE nd.attrs.axis
        num_dims_to_add_at_end == lhs_ndim - rhs_ndim - axis
        new_shape == Ones(Max(axis, 0)) \o rhs.dims \o Ones(num_dims_to_add_at_end)
    IN  IF rhs_ndim >= lhs_ndim \/ ~broadcasting_on
        THEN [status |-> kSUCCESS, net |-> n, rhs |-> rhs]
        ELSE IF ~(num_dims_to_add_at_end >= 0)
        THEN [status |-> "kINVALID_NODE", net |-> n, rhs |-> rhs]
        ELSE IF rhs.kind = "weights"
        THEN [status |-> kSUCCESS, net |-> n, rhs |-> [rhs EXCEPT !.dims = new_shape]]
        ELSE LET s == reshape_tensor(n, rhs, new_shape)
             IN  [status |-> kSUCCESS, net |-> s.net, rhs |-> s.t]

RECURSIVE MaxRankOf(_)
MaxRankOf(inputs) ==
    IF inputs = <<>> THEN -1
    ELSE Max(Len(Head(inputs).dims), MaxRankOf(Tail(inputs)))

\* every input becomes a tensor of ndim_max dimensions
RECURSIVE ExpandInputs(_, _, _, _)
ExpandInputs(n, inputs, ndim_max, done) ==
    IF inputs = <<>> THEN [net |-> n, ts |-> done]
    ELSE LET c == convertToTensor(n, Head(inputs))
             e == IF Len(c.t.dims) # ndim_max
                  THEN reshape_tensor(c.net, c.t, expand_dims(c.t.dims, ndim_max))
                  ELSE c
         IN  ExpandInputs(e.net, Tail(inputs), ndim_max, Append(done, e.t))

BroadcastDims(a, b) == [i \in 1..Len(a) |-> Max(a[i], b[i])]

\* the tensors combined with the operands of every layer exchanged
RECURSIVE FoldElementwise_Swapped(_, _, _, _)
FoldElementwise_Swapped(n, combined, rest, binary_op) ==
    IF rest = <<>> THEN [net |-> n, t |-> combined]
    ELSE LET e == addLayer(n,
                      [type |-> "elementwise", ins |-> <<Head(rest).id, combined.id>>,
                       dims |-> BroadcastDims(combined.dims, Head(rest).dims),
                       dtype |-> combined.dtype, operation |-> binary_op])
         IN  FoldElementwise_Swapped(e.net, e.t, Tail(rest), binary_op)

\* the tensors are combined pairwise from the left
RECURSIVE FoldElementwise(_, _, _, _)
FoldElementwise(n, combined, rest, binary_op) ==
    IF rest = <<>> THEN [net |-> n, t |-> combined]
    ELSE LET e == addLayer(n,
                      [type |-> "elementwise", ins |-> <<combined.id, Head(rest).id>>,
                       dims |-> BroadcastDims(combined.dims, Head(rest).dims),
                       dtype |-> combined.dtype, operation |-> binary_op])
         IN  FoldElementwise(e.net, e.t, Tail(rest), binary_op)

combineTensorsElementwise(ctx, nd, binary_op, legacy_binary_op_broadcasting) ==
    LET legacy == nd.opset < 7 /\ legacy_binary_op_broadcasting
        b == IF legacy /\ Len(nd.inputs) = 2
             THEN applyLegacyBinaryOpBroadcasting(ctx.net, nd, nd.inputs[1], nd.inputs[2])
             ELSE [status |-> kSUCCESS, net |-> ctx.net, rhs |-> NullValue]
        inputs == IF legacy THEN <<nd.inputs[1], b.rhs>> ELSE nd.inputs
        x == ExpandInputs(b.net, inputs, MaxRankOf(inputs), <<>>)
    IN  IF nd.inputs = <<>> THEN Fail("kINVALID_NODE", ctx.net, ctx.tensors)
        ELSE IF legacy /\ Len(nd.inputs) # 2
        THEN Fail("kINTERNAL_ERROR", ctx.net, ctx.tensors)
        ELSE IF b.status # kSUCCESS THEN Fail(b.status, b.net, ctx.tensors)
        ELSE IF Len(x.ts) = 1
        THEN LET i == identity(x.net, x.ts[1])
             IN  Succeed(i.net, ctx.tensors, <<i.t>>)
        ELSE LET f == FoldElementwise(x.net, x.ts[1], Tail(x.ts), binary_op)
             IN  Succeed(f.net, ctx.tensors, <<f.t>>)

importAdd(ctx, nd) == combineTensorsElementwise(ctx, nd, "kSUM", TRUE)

importIdentity(ctx, nd) ==
    LET c == convertToTensor(ctx.net, nd.inputs[1])
        i == addLayer(c.net, [type |-> "identity", ins |-> <<c.t.id>>,
                              dims |-> c.t.dims, dtype |-> c.t.dtype])
    IN  Succeed(i.net, ctx.tensors, <<i.t>>)

importDiv(ctx, nd) == combineTensorsElementwise(ctx, nd, "kDIV", TRUE)

importMul(ctx, nd) == combineTensorsElementwise(ctx, nd, "kPROD", TRUE)

importPow(ctx, nd) == combineTensorsElementwise(ctx, nd, "kPOW", TRUE)

importSub(ctx, nd) == combineTensorsElementwise(ctx, nd, "kSUB", TRUE)

\* ---- AveragePool ----

\* pads of the node: 0..MaxPad at each end of each spatial axis
MaxPad == 2

\* the first Len(v) entries of d are replaced by v
Overlay(d, v) == [i \in 1..Len(d) |-> IF i <= Len(v) THEN v[i] ELSE d[i]]

\* the padding mode of an auto_pad attribute: the SAME modes leave the pads
\* to the backend, NOTSET and VALID keep the explicit pads
PaddingModeOf(auto_pad) ==
    CASE auto_pad = "SAME_UPPER" -> "kSAME_UPPER"
      [] auto_pad = "SAME_LOWER" -> "kSAME_LOWER"
      [] OTHER -> "kEXPLICIT_ROUND_DOWN"

\* kernelParams: kernel_shape, strides and the explicit pads (the begin pads
\* of all spatial axes, then the end pads) over the given defaults
get_kernel_params(nd, nbSpatialDims) ==
    LET kernel_shape == AttrGet(nd, "kernel_shape", <<>>)
        pads == AttrGet(nd, "pads", <<>>)
        half == Len(pads) \div 2
    IN  [kernel_size |-> Overlay(Ones(nbSpatialDims), kernel_shape),
         strides |-> Overlay(Ones(nbSpatialDims), AttrGet(nd, "strides", <<>>)),
         beg_padding |-> Overlay(Zeros(nbSpatialDims), SubSeq(pads, 1, half)),
         end_padding |-> Overlay(Zeros(nbSpatialDims), SubSeq(pads, half + 1, 2 * half)),
         paddingMode |-> PaddingModeOf(AttrGet(nd, "auto_pad", "NOTSET")),
         exclude_padding |-> AttrGet(nd, "count_include_pad", 0) = 0,
         dilations |-> Overlay(Ones(nbSpatialDims), AttrGet(nd, "dilations", <<>>)),
         output_padding |->
             Overlay(Zeros(nbSpatialDims), AttrGet(nd, "output_padding", <<>>))]

\* extent of a pooled axis: the backend's formula, or CeilingPoolDim
PooledExtent(in, k, s, b, e, ceil) ==
    IF ceil THEN CeilDiv(in + 2 * b - k, s) + 1 ELSE ((in + b + e - k) \div s) + 1

\* the padding of axis d that the loop over the first two spatial axes
\* rejects: the end pad is neither the begin pad nor one more
UnsupportedAsymmetricPadding(p, d) ==
    /\ p.end_padding[d] # p.beg_padding[d]
    /\ p.end_padding[d] # p.beg_padding[d] + 1

importAveragePool(ctx, nd) ==
    LET c == convertToTensor(ctx.net, nd.inputs[1])
        need_to_expand_dims == Len(c.t.dims) = 3
        x == IF need_to_expand_dims
             THEN reshape_tensor(c.net, c.t, c.t.dims \o <<1>>)
             ELSE c
        dims == x.t.dims
        ceil_mode == nd.opset >= 10 /\ AttrGet(nd, "ceil_mode", 0) # 0
        dilations == AttrGet(nd, "dilations", <<1, 1>>)
        nbSpatialDims == Len(dims) - 2
        p == get_kernel_params(nd, nbSpatialDims)
        pooled == [i \in 1..nbSpatialDims |->
                      PooledExtent(dims[i + 2], p.kernel_size[i], p.strides[i],
                                   p.beg_padding[i], p.end_padding[i], ceil_mode)]
        pool == addLayer(x.net,
                    [type |-> "pooling", ins |-> <<x.t.id>>,
                     dims |-> SubSeq(dims, 1, 2) \o pooled, dtype |-> x.t.dtype,
                     kernel_size |-> p.kernel_size, strides |-> p.strides,
                     prePadding |-> p.beg_padding, postPadding |-> p.end_padding,
                     paddingMode |-> p.paddingMode,
                     exclude_padding |-> p.exclude_padding, ceil |-> ceil_mode])
        back == IF need_to_expand_dims
                THEN reshape_tensor(pool.net, pool.t, SubSeq(pool.t.dims, 1, 3))
                ELSE pool
    IN  IF nd.opset >= 10 /\ \E i \in 1..Len(dilations) : dilations[i] # 1
        THEN Fail("kUNSUPPORTED_NODE", x.net, ctx.tensors)
        ELSE IF ~(Len(dims) >= 4) THEN Fail("kUNSUPPORTED_NODE", x.net, ctx.tensors)
        ELSE IF ~(nbSpatialDims = 2 \/ nbSpatialDims = 3)
        THEN Fail("kUNSUPPORTED_NODE", x.net, ctx.tensors)
        ELSE IF \E d \in 1..2 : UnsupportedAsymmetricPadding(p, d)
        THEN Fail("kUNSUPPORTED_NODE", pool.net, ctx.tensors)
        ELSE Succeed(back.net, ctx.tensors, <<back.t>>)

\* ---- Loop ----

\* ctx->registerTensor(value, name)
registerTensor(tt, name, v) ==
    [x \in DOMAIN tt \cup {name} |-> IF x = name THEN v ELSE tt[x]]

\* convertToScalar: a tensor of rank 0 is returned as it is, a tensor of one
\* element is reshaped to rank 0, any other tensor gives a null pointer
convertToScalar(n, t) ==
    IF t.dims = <<>> THEN [ok |-> TRUE, net |-> n, t |-> t]
    ELSE IF Volume(t.dims) # 1 THEN [ok |-> FALSE, net |-> n, t |-> t]
    ELSE LET s == addLayer(n, [type |-> "shuffle", ins |-> <<t.id>>,
                               dims |-> <<>>, dtype |-> t.dtype])
         IN  [ok |-> TRUE, net |-> s.net, t |-> s.t]

\* the importers a body node can be dispatched to
Dispatch(ctx, nd) ==
    CASE nd.op = "Add" -> importAdd(ctx, nd)
      [] nd.op = "Identity" -> importIdentity(ctx, nd)
      [] nd.op = "Gather" -> importGather(ctx, nd)
      [] nd.op = "TRT_Gather" -> importTRT_Gather(ctx, nd)
      [] nd.op = "Slice" -> importSlice(ctx, nd)
      [] nd.op = "AveragePool" -> importAveragePool(ctx, nd)
      [] OTHER -> Fail("kUNSUPPORTED_NODE", ctx.net, ctx.tensors)

RECURSIVE RegisterOutputs(_, _, _)
RegisterOutputs(tt, names, outs) ==
    IF names = <<>> \/ outs = <<>> THEN tt
    ELSE RegisterOutputs(registerTensor(tt, Head(names), Head(outs)),
                         Tail(names), Tail(outs))

\* a node of a graph with its inputs looked up by name
BoundNode(ctx, g) ==
    [op |-> g.op, inputs |-> [i \in 1..Len(g.input) |-> ctx.tensors[g.input[i]]],
     attrs |-> g.attrs, opset |-> g.opset, output |-> g.output]

\* the nodes of a graph are lowered in order: the inputs of a node are
\* looked up by name, its importer runs, its outputs are registered
RECURSIVE parseNodes(_, _)
RECURSIVE parseRest(_, _, _)
parseRest(r, g, rest) ==
    IF r.status # kSUCCESS THEN r
    ELSE parseNodes([net |-> r.net,
                     tensors |-> RegisterOutputs(r.tensors, g.output, r.outputs)], rest)

parseNodes(ctx, nodes) ==
    IF nodes = <<>> THEN Succeed(ctx.net, ctx.tensors, <<>>)
    ELSE IF \E i \in 1..Len(Head(nodes).input) :
                Head(nodes).input[i] \notin DOMAIN ctx.tensors
    THEN Fail("InvalidGraph", ctx.net, ctx.tensors)
    ELSE parseRest(Dispatch(ctx, BoundNode(ctx, Head(nodes))), Head(nodes), Tail(nodes))

parseGraph(ctx, graph) == parseNodes(ctx, graph.node)

NB_NON_STATE_INPUTS == 2

NB_DISCARDED_OUTPUTS == 1

MAX_SCAN_OUTPUT_LENGTH == 1024

\* an optional trip count or condition becomes a scalar and a trip limit;
\* st carries the status, the network and the scalar of the trip count
LoopTripLimit(st, v, kind, loop) ==
    IF v.kind = "null" \/ st.status # kSUCCESS THEN st
    ELSE LET c == convertToTensor(st.net, v)
             s == convertToScalar(c.net, c.t)
             l == addLayer(s.net, [type |-> "trip_limit", ins |-> <<s.t.id>>,
                                   dims |-> <<>>, dtype |-> "", kind |-> kind,
                                   loop |-> loop])
         IN  IF ~s.ok THEN [st EXCEPT !.status = "kINVALID_NODE", !.net = s.net]
             ELSE [st EXCEPT !.net = l.net,
                             !.tripLimit = IF kind = "kCOUNT" THEN s.t ELSE @]

\* a recurrence layer for every state variable, registered under the name
\* of the body input at the same position
RECURSIVE LoopStateVars(_, _, _, _, _)
LoopStateVars(st, inputs, body, i, loop) ==
    IF i > Len(inputs) \/ st.status # kSUCCESS THEN st
    ELSE LET c == convertToTensor(st.net, inputs[i])
             r == addLayer(c.net, [type |-> "recurrence", ins |-> <<c.t.id>>,
                                   dims |-> c.t.dims, dtype |-> c.t.dtype,
                                   loop |-> loop, updates |-> <<>>])
         IN  LoopStateVars([st EXCEPT !.net = r.net,
                                      !.tensors = registerTensor(@, body.input[i], r.t),
                                      !.stateVars = Append(@, Len(r.net))],
                           inputs, body, i + 1, loop)

\* the index had the condition not been skipped
StateOutputIndex_Unskipped(i) == i

\* index of the body output that updates state variable i (from 0)
StateOutputIndex(i) == i + NB_DISCARDED_OUTPUTS

\* a last-value output of the loop over the recurrence made by layer sv
addLastValue(n, sv, loop) ==
    addLayer(n, [type |-> "loop_output", ins |-> <<OutputId(sv, 1)>>,
                 dims |-> n[sv].dims, dtype |-> n[sv].dtype,
                 kind |-> "kLAST_VALUE", loop |-> loop])

\* the layer o was added and its output is the next output of the node
OutputAdded(st, o) == [st EXCEPT !.net = o.net, !.outputs = Append(@, o.t)]

\* stateVars.at(i)->setInput(1, stateOutput), then the last-value output of
\* the state variable; c is the body output as a tensor
StateOutput(st, sv, c, loop) ==
    OutputAdded(st, addLastValue(setUpdate(c.net, sv, c.t.id), sv, loop))

\* the update of every state variable is the body output after the
\* condition; every state variable is a last-value output of the loop
RECURSIVE LoopStateOutputs(_, _, _, _)
LoopStateOutputs(st, body, i, loop) ==
    IF i >= Len(st.stateVars) \/ st.status # kSUCCESS THEN st
    ELSE IF body.output[StateOutputIndex(i) + 1] \notin DOMAIN st.tensors
    THEN [st EXCEPT !.status = "std::out_of_range",
                    !.read = @ \cup {StateOutputIndex(i)}]
    ELSE LoopStateOutputs(
             [StateOutput(st, st.stateVars[i + 1],
                          convertToTensor(st.net,
                              st.tensors[body.output[StateOutputIndex(i) + 1]]),
                          loop)
                 EXCEPT !.read = @ \cup {StateOutputIndex(i)}],
             body, i + 1, loop)

\* the scan outputs: body outputs from nbStateVars + NB_DISCARDED_OUTPUTS up
\* to the number of node inputs; a read past the end of the body's output
\* list yields whatever lies there (garbage), or ends the process
RECURSIVE LoopScanOutputs(_, _, _, _, _, _)
LoopScanOutputs(st, body, i, nbInputs, loop, garbage) ==
    IF ~(i < nbInputs) \/ st.status # kSUCCESS THEN st
    ELSE LET pastEnd == i + 1 > Len(body.output)
             bodyOutputName == IF pastEnd THEN garbage ELSE body.output[i + 1]
             c == convertToTensor(st.net, st.tensors[bodyOutputName])
             o == addLayer(c.net, [type |-> "loop_output", ins |-> <<c.t.id>>,
                                   dims |-> <<MAX_SCAN_OUTPUT_LENGTH>> \o c.t.dims,
                                   dtype |-> c.t.dtype,
                                   kind |-> "kCONCATENATE", loop |-> loop])
             k == addConstantScalar(o.net, MAX_SCAN_OUTPUT_LENGTH, "INT32", <<>>)
             len == IF st.tripLimit.kind # "null" THEN st.tripLimit ELSE k.t
             n1 == IF st.tripLimit.kind # "null" THEN o.net ELSE k.net
             n2 == [n1 EXCEPT ![Len(o.net)].ins = <<@[1], len.id>>]
         IN  IF pastEnd /\ garbage = "<abort>"
             THEN [st EXCEPT !.status = "abort", !.read = @ \cup {i}]
             ELSE IF bodyOutputName \notin DOMAIN st.tensors
             THEN [st EXCEPT !.status = "std::out_of_range", !.read = @ \cup {i}]
             ELSE LoopScanOutputs([st EXCEPT !.net = n2,
                                             !.outputs = Append(@, o.t),
                                             !.read = @ \cup {i}],
                                  body, i + 1, nbInputs, loop, garbage)

\* TRT_CHECK(parseGraph(ctx, body)): the body's layers and names stay;
\* helpers keeps the status parseGraph reported
LoopBodyParsed(st, p) ==
    [st EXCEPT !.status = p.status, !.net = p.net, !.tensors = p.tensors,
               !.helpers = <<p.status>>]

\* atBody keeps the tensor table as it is when the body's lowering begins
LoopParseBody(st, body) ==
    IF st.status # kSUCCESS THEN st
    ELSE LoopBodyParsed([st EXCEPT !.atBody = st.tensors],
                        parseGraph([net |-> st.net, tensors |-> st.tensors], body))

\* what importLoop returns, the indices at which it has read the body's
\* output list, and the tensor table the body was lowered in
LoopResult(st) ==
    [status |-> st.status, net |-> st.net, tensors |-> st.tensors,
     outputs |-> IF st.status = kSUCCESS THEN st.outputs ELSE <<>>,
     read |-> st.read, atBody |-> st.atBody, helpers |-> st.helpers]

importLoop(ctx, nd, garbage) ==
    LET nbInputs == Len(nd.inputs)
        nbStateVars == nbInputs - NB_NON_STATE_INPUTS
        body == nd.attrs.body
        loop == Len(ctx.net) + 1
        s0 == [status |-> kSUCCESS,
               net |-> Append(ctx.net, [type |-> "loop", ins |-> <<>>, dims |-> <<>>,
                                        dtype |-> ""]),
               tensors |-> ctx.tensors, tripLimit |-> NullValue, stateVars |-> <<>>,
               outputs |-> <<>>, read |-> {}, atBody |-> <<>>, helpers |-> <<>>]
        s1 == LoopTripLimit(s0, nd.inputs[1], "kCOUNT", loop)
        s2 == LoopTripLimit(s1, nd.inputs[2], "kWHILE_NONZERO", loop)
        s3 == LoopStateVars(s2, nd.inputs, body, NB_NON_STATE_INPUTS + 1, loop)
        s4 == LoopParseBody(s3, body)
        s5 == LoopStateOutputs(s4, body, 0, loop)
        s6 == LoopScanOutputs(s5, body, nbStateVars + NB_DISCARDED_OUTPUTS,
                              nbInputs, loop, garbage)
    IN  IF ~(nbInputs >= 2)
        THEN LoopResult([s0 EXCEPT !.status = "kINVALID_NODE", !.net = ctx.net])
        ELSE LoopResult(s6)

\* ---- Scan ----

\* getAxisLength over a tensor of the network: one layer whose output is the
\* extent of the axis
axisLength(n, t, axis) ==
    addLayer(n, [type |-> "axis_length", ins |-> <<t.id>>, dims |-> <<>>,
                 dtype |-> "INT32", axis |-> axis, rank |-> Len(t.dims)])

\* the shape without the axis
WithoutAxis(dims, axis) ==
    [i \in 1..(Len(dims) - 1) |-> IF i <= axis THEN dims[i] ELSE dims[i + 1]]

\* an iterator layer over every scan input, registered under the name of the
\* body input at the same position: the scan inputs follow the state variables
addIterator(c, axis, direction, loop) ==
    addLayer(c.net, [type |-> "iterator", ins |-> <<c.t.id>>,
                     dims |-> WithoutAxis(c.t.dims, axis), dtype |-> c.t.dtype,
                     axis |-> axis, reverse |-> direction = 1, loop |-> loop])

\* the layer it was added and its output registered under a name
Registered(st, name, it) ==
    [st EXCEPT !.net = it.net, !.tensors = registerTensor(@, name, it.t)]

RECURSIVE ScanIterators(_, _, _, _, _, _, _)
ScanIterators(st, inputs, body, axes, directions, i, loop) ==
    IF i >= Len(axes) \/ st.status # kSUCCESS THEN st
    ELSE ScanIterators(
             Registered(st, body.input[Len(st.stateVars) + i + 1],
                        addIterator(convertToTensor(st.net,
                                                    inputs[Len(st.stateVars) + i + 1]),
                                    axes[i + 1], directions[i + 1], loop)),
             inputs, body, axes, directions, i + 1, loop)

\* the update of state variable i is body output i; every state variable is
\* a last-value output of the loop
RECURSIVE ScanStateOutputs(_, _, _, _)
ScanStateOutputs(st, body, i, loop) ==
    IF i >= Len(st.stateVars) \/ st.status # kSUCCESS THEN st
    ELSE IF body.output[i + 1] \notin DOMAIN st.tensors
    THEN [st EXCEPT !.status = "std::out_of_range", !.read = @ \cup {i}]
    ELSE ScanStateOutputs(
             [StateOutput(st, st.stateVars[i + 1],
                          convertToTensor(st.net, st.tensors[body.output[i + 1]]), loop)
                 EXCEPT !.read = @ \cup {i}],
             body, i + 1, loop)

\* faulty variant: every scan output is appended
addScanOutput_Appending(c, tripLimit, axis, direction, loop) ==
    addLayer(c.net, [type |-> "loop_output", ins |-> <<c.t.id, tripLimit.id>>,
                     dims |-> <<-1>> \o c.t.dims, dtype |-> c.t.dtype,
                     kind |-> "kCONCATENATE", axis |-> axis, loop |-> loop])

\* the scan outputs: the body outputs after those of the state variables,
\* each concatenated, or concatenated in reverse, up to the trip limit
addScanOutput(c, tripLimit, axis, direction, loop) ==
    addLayer(c.net, [type |-> "loop_output", ins |-> <<c.t.id, tripLimit.id>>,
                     dims |-> <<-1>> \o c.t.dims, dtype |-> c.t.dtype,
                     kind |-> IF direction = 0 THEN "kCONCATENATE" ELSE "kREVERSE",
                     axis |-> axis, loop |-> loop])

RECURSIVE ScanOutputs(_, _, _, _, _, _, _)
ScanOutputs(st, body, axes, directions, i, nbScanOutputs, loop) ==
    IF ~(i < nbScanOutputs) \/ st.status # kSUCCESS THEN st
    ELSE IF body.output[Len(st.stateVars) + i + 1] \notin DOMAIN st.tensors
    THEN [st EXCEPT !.status = "std::out_of_range",
                    !.read = @ \cup {Len(st.stateVars) + i}]
    ELSE ScanOutputs(
             [OutputAdded(st,
                  addScanOutput(convertToTensor(st.net,
                                    st.tensors[body.output[Len(st.stateVars) + i + 1]]),
                                st.tripLimit, axes[i + 1], directions[i + 1], loop))
                 EXCEPT !.read = @ \cup {Len(st.stateVars) + i}],
             body, axes, directions, i + 1, nbScanOutputs, loop)

\* the trip limit of the loop: the length of the last scan input along its axis
addTripLimit(tripLimit, loop) ==
    addLayer(tripLimit.net, [type |-> "trip_limit", ins |-> <<tripLimit.t.id>>,
                             dims |-> <<>>, dtype |-> "", kind |-> "kCOUNT",
                             loop |-> loop])

ScanLoop(ctx, tripLimit, loop) ==
    [status |-> kSUCCESS, net |-> addTripLimit(tripLimit, loop).net,
     tensors |-> ctx.tensors, tripLimit |-> tripLimit.t, stateVars |-> <<>>,
     outputs |-> <<>>, read |-> {}, atBody |-> <<>>, helpers |-> <<>>]

ScanTripLimit(last, axis) == axisLength(last.net, last.t, axis)

\* the loop layer
addLoop(n) == Append(n, [type |-> "loop", ins |-> <<>>, dims |-> <<>>, dtype |-> ""])

ScanBegin(ctx, nd, scanInputAxes, loop) ==
    ScanLoop(ctx,
             ScanTripLimit(convertToTensor(addLoop(ctx.net), nd.inputs[Len(nd.inputs)]),
                           scanInputAxes[nd.attrs.num_scan_inputs]),
             loop)

ScanBodyLowered(st, nd, nbStateVars, nbScanOutputs, loop) ==
    ScanOutputs(
        ScanStateOutputs(LoopParseBody(st, nd.attrs.body), nd.attrs.body, 0, loop),
        nd.attrs.body,
        AttrGet(nd, "scan_output_axes", Zeros(nbScanOutputs)),
        AttrGet(nd, "scan_output_directions", Zeros(nbScanOutputs)),
        0, nbScanOutputs, loop)

ScanInputsBound(st, nd, nbStateVars, scanInputAxes, loop) ==
    ScanIterators(
        LoopStateVars(st, SubSeq(nd.inputs, 1, nbStateVars), nd.attrs.body, 1, loop),
        nd.inputs, nd.attrs.body, scanInputAxes,
        AttrGet(nd, "scan_input_directions", Zeros(nd.attrs.num_scan_inputs)), 0, loop)

ScanWith(ctx, nd, nbStateVars, scanInputAxes, loop) ==
    ScanBodyLowered(ScanInputsBound(ScanBegin(ctx, nd, scanInputAxes, loop), nd,
                                    nbStateVars, scanInputAxes, loop),
                    nd, nbStateVars, Len(nd.output) - nbStateVars, loop)

importScan(ctx, nd) ==
    LoopResult(ScanWith(ctx, nd, Len(nd.inputs) - nd.attrs.num_scan_inputs,
                        AttrGet(nd, "scan_input_axes", Zeros(nd.attrs.num_scan_inputs)),
                        Len(ctx.net) + 1))

\* ---- LSTM ----

\* hidden sizes of the LSTM nodes: up to MaxHidden
MaxHidden == 2

\* An importer that holds many tensors builds on a network together with
\* the tensors it holds, by the names of its variables, and the error it
\* has returned; after the return it adds nothing
Builder(n) == [status |-> kSUCCESS, net |-> n, t |-> <<>>]

Bound(b, name, r) == [status |-> b.status, net |-> r.net, t |-> (name :> r.t) @@ b.t]

\* ASSERT(condition, code)
Require(b, condition, code) ==
    IF b.status # kSUCCESS \/ condition THEN b ELSE [b EXCEPT !.status = code]

IdsOf(b, names) == [i \in DOMAIN names |-> b.t[names[i]].id]

\* name = &convertToTensor(value, ctx)
BindTensor(b, name, v) ==
    IF b.status # kSUCCESS THEN b ELSE Bound(b, name, convertToTensor(b.net, v))

\* name = network->add...(inputs)->getOutput(0), the inputs given by name
BindLayer(b, name, L) ==
    IF b.status # kSUCCESS THEN b
    ELSE Bound(b, name, addLayer(b.net, [L EXCEPT !.ins = IdsOf(b, @)]))

\* name = loop->add...(inputs)->getOutput(0)
BindLoopLayer(b, name, L) ==
    IF b.status # kSUCCESS THEN b
    ELSE BindLayer(b, name, [L EXCEPT !.loop = b.t["loop"].id.layer])

\* layer->setInput(...): the inputs of the layer that made the named tensor
SetInputs(b, layer, names) ==
    IF b.status # kSUCCESS THEN b
    ELSE [b EXCEPT !.net[b.t[layer].id.layer].ins = IdsOf(b, names)]

\* recurrence->setInput(1, update), both given by name
SetUpdate(b, recurrence, update) ==
    IF b.status # kSUCCESS THEN b
    ELSE [b EXCEPT !.net = setUpdate(@, b.t[recurrence].id.layer, b.t[update].id)]

BindConstant(b, name, values, type, shape) ==
    IF b.status # kSUCCESS THEN b
    ELSE Bound(b, name, addConstant(b.net, values, type, shape))

BindConstantScalar(b, name, scalar, type, shape) ==
    IF b.status # kSUCCESS THEN b
    ELSE Bound(b, name, addConstantScalar(b.net, scalar, type, shape))

\* a layer whose shape the backend computes and no importer reads
PlainLayer(type, ins) ==
    [type |-> type, ins |-> ins, dims |-> <<>>, dtype |-> "FLOAT"]

ElementWiseLayer(ins, operation) ==
    [type |-> "elementwise", ins |-> ins, dims |-> <<>>, dtype |-> "FLOAT",
     operation |-> operation]

ActivationLayer(ins, activation) ==
    [type |-> "activation", ins |-> ins, dims |-> <<>>, dtype |-> "FLOAT",
     activation |-> activation]

IteratorLayer(ins, reverse) ==
    [type |-> "iterator", ins |-> ins, dims |-> <<>>, dtype |-> "FLOAT",
     reverse |-> reverse, loop |-> 0]

RecurrenceLayer(ins) ==
    [type |-> "recurrence", ins |-> ins, dims |-> <<>>, dtype |-> "FLOAT", loop |-> 0,
     updates |-> <<>>]

LoopOutputLayer(ins, kind) ==
    [type |-> "loop_output", ins |-> ins, dims |-> <<>>, dtype |-> "FLOAT",
     kind |-> kind, loop |-> 0]

addPlain(n, type, ins) == addLayer(n, PlainLayer(type, ins))

\* getAxisLength: the length of an axis of the tensor, as a tensor
getAxisLength(b, name, of, axis) ==
    IF b.status # kSUCCESS THEN b
    ELSE
    Bound(b, name, addLayer(b.net, [type |-> "axis_length", ins |-> <<b.t[of].id>>,
                                    dims |-> <<>>, dtype |-> "INT32", axis |-> axis,
                                    rank |-> Len(b.t[of].dims)]))

\* constantOfShape: the constant broadcast to the shape given by a tensor
constantOfShape(b, name, constant, shape) ==
    BindLayer(b, name, PlainLayer("fill", <<constant, shape>>))

\* an optional input that is given
Given(inputs, i) == Len(inputs) >= i /\ inputs[i].kind # "null"

DefaultActivations(numDirections) ==
    IF numDirections = 2
    THEN <<"Sigmoid", "Tanh", "Tanh", "Sigmoid", "Tanh", "Tanh">>
    ELSE <<"Sigmoid", "Tanh", "Tanh">>

\* input, weights and recurrenceWeights as tensors
LSTMInputTensors(b, nd) ==
    LET b1 == BindTensor(b, "input", nd.inputs[1])
        b2 == BindTensor(b1, "weights", nd.inputs[2])
    IN  BindTensor(b2, "recurrenceWeights", nd.inputs[3])

\* the bias, when given, reshaped and reduced to Wb + Rb
LSTMCombinedBias(b, nd) ==
    IF b.status # kSUCCESS \/ ~Given(nd.inputs, 4) THEN b
    ELSE LET b1 == BindTensor(b, "bias", nd.inputs[4])
             b2 == BindLayer(b1, "reshapeBias", PlainLayer("shuffle", <<"bias">>))
         IN  BindLayer(b2, "combinedBias", PlainLayer("reduce", <<"reshapeBias">>))

\* a shape tensor (numDirections, batchSize, hiddenSize)
initialStateShape(b, numDirections, hiddenSize) ==
    LET b1 == BindConstantScalar(b, "numDirectionsTensor", numDirections, "INT32", <<1>>)
        b2 == BindConstantScalar(b1, "hiddenSizeTensor", hiddenSize, "INT32", <<1>>)
        b3 == getAxisLength(b2, "batchSizeTensor", "input", 1)
    IN  BindLayer(b3, "gateOutputShape",
                  PlainLayer("concatenation",
                             <<"numDirectionsTensor", "batchSizeTensor", "hiddenSizeTensor">>))

\* getInitialInputValue: the given initial state, or zeros of the state's shape
getInitialInputValue(b, name, inputs, inputIdx) ==
    IF b.status # kSUCCESS THEN b
    ELSE IF Given(inputs, inputIdx + 1)
    THEN BindTensor(b, name, inputs[inputIdx + 1])
    ELSE constantOfShape(BindConstantScalar(b, "zero", 0, "FLOAT", <<1>>),
                         name, "zero", "gateOutputShape")

\* the loop and its trip limit, the length of the sequence
LSTMLoop(b) ==
    LET b1 == BindLayer(b, "loop", [type |-> "loop", ins |-> <<>>, dims |-> <<>>,
                                    dtype |-> ""])
        b2 == getAxisLength(b1, "tripLimit", "input", 0)
    IN  BindLoopLayer(b2, "tripLimitLayer",
                      [type |-> "trip_limit", ins |-> <<"tripLimit">>, dims |-> <<>>,
                       dtype |-> "", kind |-> "kCOUNT", loop |-> 0])

\* what importLSTM adds after the inputs and before X(t)
LSTMPrologue(b, nd, numDirections, hiddenSize) ==
    LET b1 == LSTMCombinedBias(b, nd)
        b2 == initialStateShape(b1, numDirections, hiddenSize)
        b3 == getInitialInputValue(b2, "initialHidden", nd.inputs, 5)
        b4 == getInitialInputValue(b3, "initialCellState", nd.inputs, 6)
    IN  LSTMLoop(b4)

unsqueezeIterator(b, name, iterator) ==
    BindLayer(b, name, PlainLayer("shuffle", <<iterator>>))

\* X(t): one iterator, or a forward and a reverse one stacked on axis 0
LSTMIterationInput(b, direction) ==
    IF b.status # kSUCCESS THEN b
    ELSE IF direction \in {"forward", "reverse"}
    THEN unsqueezeIterator(
             BindLoopLayer(b, "iterator", IteratorLayer(<<"input">>, direction = "reverse")),
             "iterationInput", "iterator")
    ELSE LET b0 == Require(b, direction = "bidirectional", "kINVALID_NODE")
             b1 == BindLoopLayer(b0, "forward", IteratorLayer(<<"input">>, FALSE))
             b2 == BindLoopLayer(b1, "reverse", IteratorLayer(<<"input">>, TRUE))
             b3 == unsqueezeIterator(b2, "forwardUnsqueezed", "forward")
             b4 == unsqueezeIterator(b3, "reverseUnsqueezed", "reverse")
         IN  BindLayer(b4, "iterationInput",
                       [type |-> "concatenation",
                        ins |-> <<"forwardUnsqueezed", "reverseUnsqueezed">>,
                        dims |-> <<>>, dtype |-> "FLOAT", axis |-> 0, rank |-> 3])

\* isolateGate: a slice of the gates, its start a constant, its size the
\* shape of one gate
isolateGate(b, name, gates, gateIndex, hiddenSize) ==
    LET b1 == BindLayer(b, name, PlainLayer("slice", <<gates>>))
        b2 == BindConstant(b1, "start", <<0, 0, gateIndex * hiddenSize>>, "INT32", <<3>>)
    IN  SetInputs(b2, name, <<gates, "start", "gateOutputShape">>)

\* intermediate(t) = X(t) * W^T + H(t-1) * R^T + (Wb + Rb)
LSTMIntermediate(b) ==
    LET b1 == BindLoopLayer(b, "hiddenState", RecurrenceLayer(<<"initialHidden">>))
        b2 == BindLoopLayer(b1, "cellState", RecurrenceLayer(<<"initialCellState">>))
        b3 == BindLayer(b2, "xtWT", PlainLayer("matrix_multiply", <<"iterationInput", "weights">>))
        b4 == BindLayer(b3, "ht1RT",
                        PlainLayer("matrix_multiply", <<"hiddenState", "recurrenceWeights">>))
        b5 == BindLayer(b4, "intermediatet", ElementWiseLayer(<<"xtWT", "ht1RT">>, "kSUM"))
    IN  IF b.status # kSUCCESS THEN b
        ELSE IF "combinedBias" \in DOMAIN b.t
        THEN BindLayer(b5, "intermediatet",
                       ElementWiseLayer(<<"intermediatet", "combinedBias">>, "kSUM"))
        ELSE b5

\* c(t), and i(t), o(t), f(t) out of one activation of three gates
LSTMGates(b, activations, hiddenSize) ==
    LET b1 == isolateGate(b, "cGate", "intermediatet", 3, hiddenSize)
        b2 == BindLayer(b1, "ctGate", ActivationLayer(<<"cGate">>, activations[2]))
        b3 == BindLayer(b2, "isolateIOF", PlainLayer("slice", <<"intermediatet">>))
        b4 == BindConstant(b3, "iofStart", <<0, 0, 0>>, "INT32", <<3>>)
        b5 == BindConstant(b4, "three", <<1, 1, 3>>, "INT32", <<3>>)
        b6 == BindLayer(b5, "threeGateShape",
                        ElementWiseLayer(<<"gateOutputShape", "three">>, "kPROD"))
        b7 == SetInputs(b6, "isolateIOF", <<"intermediatet", "iofStart", "threeGateShape">>)
        b8 == BindLayer(b7, "ioftGates", ActivationLayer(<<"isolateIOF">>, activations[1]))
        b9 == isolateGate(b8, "itGate", "ioftGates", 0, hiddenSize)
        b10 == isolateGate(b9, "otGate", "ioftGates", 1, hiddenSize)
    IN  isolateGate(b10, "ftGate", "ioftGates", 2, hiddenSize)

ForgetProduct(b) ==
    BindLayer(b, "fC", ElementWiseLayer(<<"ftGate", "cellState">>, "kPROD"))

InputProduct(b) ==
    BindLayer(b, "iC", ElementWiseLayer(<<"itGate", "ctGate">>, "kPROD"))

\* C(t) = f(t) . C(t-1) + i(t) . c(t), H(t) = o(t) . h(C(t)); the two
\* products are arguments of one call, so either is added first (fFirst)
LSTMStates(b, activations, fFirst) ==
    LET b1 == IF b.status # kSUCCESS THEN b
              ELSE IF fFirst THEN InputProduct(ForgetProduct(b))
              ELSE ForgetProduct(InputProduct(b))
        b2 == BindLayer(b1, "Ct", ElementWiseLayer(<<"fC", "iC">>, "kSUM"))
        b3 == SetUpdate(b2, "cellState", "Ct")
        b4 == BindLayer(b3, "hAct", ActivationLayer(<<"Ct">>, activations[3]))
        b5 == BindLayer(b4, "Ht", ElementWiseLayer(<<"otGate", "hAct">>, "kPROD"))
    IN  SetUpdate(b5, "hiddenState", "Ht")

\* Y, all H(t) concatenated; Yh and Yc, the last H(t) and C(t)
LSTMOutputs(b) ==
    LET b1 == BindLoopLayer(b, "Y", LoopOutputLayer(<<"Ht">>, "kCONCATENATE"))
        b2 == getAxisLength(b1, "length", "input", 0)
        b3 == SetInputs(b2, "Y", <<"Ht", "length">>)
        b4 == BindLoopLayer(b3, "Yh", LoopOutputLayer(<<"hiddenState">>, "kLAST_VALUE"))
    IN  BindLoopLayer(b4, "Yc", LoopOutputLayer(<<"cellState">>, "kLAST_VALUE"))

LSTMResult(b, tt) ==
    IF b.status # kSUCCESS THEN Fail(b.status, b.net, tt)
    ELSE Succeed(b.net, tt, <<b.t["Y"], b.t["Yh"], b.t["Yc"]>>)

importLSTM(ctx, nd, fFirst) ==
    LET direction == AttrGet(nd, "direction", "forward")
        numDirections == IF direction = "bidirectional" THEN 2 ELSE 1
        hiddenSize == nd.attrs.hidden_size
        inputForget == AttrGet(nd, "input_forget", 0)
        clip == AttrGet(nd, "clip", -1)
        activations == AttrGet(nd, "activations", DefaultActivations(numDirections))
        a1 == Require(Builder(ctx.net), inputForget = 0, "kUNSUPPORTED_NODE")
        a2 == Require(a1, ~Given(nd.inputs, 8), "kUNSUPPORTED_NODE")
        a3 == Require(a2, clip = -1, "kUNSUPPORTED_NODE")
        b1 == LSTMInputTensors(a3, nd)
        a4 == Require(b1, numDirections = 2
                              => SubSeq(activations, 1, 3) = SubSeq(activations, 4, 6),
                      "kUNSUPPORTED_NODE")
        b2 == LSTMPrologue(a4, nd, numDirections, hiddenSize)
        b3 == LSTMIterationInput(b2, direction)
        b4 == LSTMIntermediate(b3)
        b5 == LSTMGates(b4, activations, hiddenSize)
        b6 == LSTMStates(b5, activations, fFirst)
    IN  LSTMResult(LSTMOutputs(b6), ctx.tensors)

\* ---- the legacy LSTM importer (one RNNv2 layer) ----

\* the manual transpose of initial_h and initial_c: element (i, j, k) of
\* [num_directions, batch_size, hidden_size] moves to (j, i, k)
TransposeDirBatch(vals, D, B, H) ==
    [q \in 1..(D * B * H) |->
        LET j == (q - 1) \div (D * H)
            i == ((q - 1) % (D * H)) \div H
            k == (q - 1) % H
        IN  vals[i * B * H + j * H + k + 1]]

\* std::memcpy(weights.values, buffer, len): the permuted values are written
\* over the first len values of the buffer of input i, which the caller's
\* value shares
memcpyToInput(inputs, i, permuted) ==
    [inputs EXCEPT ![i].vals =
        [q \in 1..Len(@) |-> IF q <= Len(permuted) THEN permuted[q] ELSE @[q]]]

\* the optional inputs from the fourth on, told apart by their names; st
\* carries the status, the network, the tensor table, the inputs with
\* their buffers and what was found
RECURSIVE LegacyOptionalInputs(_, _, _, _)
LegacyOptionalInputs(st, nd, i, q) ==
    IF i > Len(nd.input) \/ st.status # kSUCCESS THEN st
    ELSE LET input_name == nd.input[i]
             v == nd.inputs[i]
             sl == convertToTensor(st.net, v)
             permuted == TransposeDirBatch(v.vals, q.num_directions, q.batch_size,
                                           q.hidden_size)
             k == addConstant(st.net, permuted, v.dtype,
                              <<q.batch_size, q.num_directions, q.hidden_size>>)
             sh == addPlain(st.net, "shuffle", <<v.id>>)
             output == IF v.kind = "weights" THEN k ELSE [sh EXCEPT !.t.dtype = v.dtype]
             \* the weights are permuted in the buffer the table's value owns
             tt == IF v.kind = "weights" /\ input_name \in DOMAIN st.tensors
                   THEN [st.tensors EXCEPT ![input_name].vals = permuted]
                   ELSE st.tensors
             written == IF v.kind = "weights" THEN memcpyToInput(st.inputs, i, permuted)
                        ELSE st.inputs
             next ==
                CASE input_name = "B" -> [st EXCEPT !.has_bias = TRUE]
                  [] input_name = "sequence_lens" ->
                        IF sl.t.dtype # "INT32"
                        THEN [st EXCEPT !.status = "kINVALID_NODE", !.net = sl.net]
                        ELSE [st EXCEPT !.net = sl.net, !.sequence_lens = sl.t]
                  [] input_name \in {"initial_h", "initial_c"} ->
                        IF output.t.dtype # q.input_type
                        THEN [st EXCEPT !.status = "kINVALID_NODE", !.net = output.net,
                                        !.tensors = tt, !.inputs = written]
                        ELSE IF input_name = "initial_h"
                        THEN [st EXCEPT !.net = output.net, !.tensors = tt,
                                        !.inputs = written, !.initial_h = output.t]
                        ELSE [st EXCEPT !.net = output.net, !.tensors = tt,
                                        !.inputs = written, !.initial_c = output.t]
                  [] input_name = "P" -> [st EXCEPT !.status = "kUNSUPPORTED_NODE"]
                  [] OTHER -> st
         IN  LegacyOptionalInputs(next, nd, i + 1, q)

\* one shuffle layer for each declared output of the node
RECURSIVE LegacyOutputs(_, _, _, _, _)
LegacyOutputs(n, layer, count, i, outs) ==
    IF i > count THEN [net |-> n, outputs |-> outs]
    ELSE LET s == addPlain(n, "shuffle", <<OutputId(layer, i)>>)
         IN  LegacyOutputs(s.net, layer, count, i + 1, Append(outs, s.t))

\* the importer returns r, its inputs' buffers holding what was written
Returning(r, inputs) ==
    [status |-> r.status, net |-> r.net, tensors |-> r.tensors, outputs |-> r.outputs, inputs |-> inputs]

lstmLegacyImporter(ctx, nd) ==
    LET raw_input == convertToTensor(ctx.net, nd.inputs[1])
        n0 == raw_input.net
        input_type == raw_input.t.dtype
        direction_str == AttrGet(nd, "direction", "forward")
        num_directions == IF direction_str = "forward" THEN 1 ELSE 2
        activations == AttrGet(nd, "activations", DefaultActivations(num_directions))
        clip == AttrGet(nd, "clip", 0)
        hidden_size == nd.attrs.hidden_size
        input_forget == AttrGet(nd, "input_forget", 0)
        q == [num_directions |-> num_directions, batch_size |-> raw_input.t.dims[2],
              hidden_size |-> hidden_size, input_type |-> input_type]
        opt == LegacyOptionalInputs(
                   [status |-> kSUCCESS, net |-> n0, tensors |-> ctx.tensors,
                    inputs |-> nd.inputs, has_bias |-> FALSE, sequence_lens |-> NullValue,
                    initial_h |-> NullValue, initial_c |-> NullValue], nd, 4, q)
        input_shuffle_layer == addPlain(opt.net, "shuffle", <<raw_input.t.id>>)
        hasW == nd.inputs[2].kind = "weights"
        hasR == nd.inputs[3].kind = "weights"
        layer == addLayer(input_shuffle_layer.net,
                    [type |-> "rnn_v2",
                     ins |-> <<input_shuffle_layer.t.id, opt.sequence_lens.id,
                               opt.initial_h.id, opt.initial_c.id>>,
                     dims |-> <<>>, dtype |-> input_type,
                     hidden_size |-> hidden_size, direction |-> direction_str,
                     seq_len |-> raw_input.t.dims[1]])
        outs == LegacyOutputs(layer.net, Len(layer.net), Len(nd.output), 1, <<>>)
    IN  IF Len(raw_input.t.dims) # 3 THEN Returning(Fail("kINVALID_NODE", n0, ctx.tensors), nd.inputs)
        ELSE IF input_type \notin {"FLOAT", "HALF"}
        THEN Returning(Fail("kUNSUPPORTED_NODE", n0, ctx.tensors), nd.inputs)
        ELSE IF direction_str \notin {"forward", "bidirectional"}
        THEN Returning(Fail("kUNSUPPORTED_NODE", n0, ctx.tensors), nd.inputs)
        ELSE IF activations # DefaultActivations(num_directions)
        THEN Returning(Fail("kUNSUPPORTED_NODE", n0, ctx.tensors), nd.inputs)
        ELSE IF clip # 0 THEN Returning(Fail("kUNSUPPORTED_NODE", n0, ctx.tensors), nd.inputs)
        ELSE IF ~(hidden_size > 0) THEN Returning(Fail("kINVALID_NODE", n0, ctx.tensors), nd.inputs)
        ELSE IF input_forget # 0 THEN Returning(Fail("kUNSUPPORTED_NODE", n0, ctx.tensors), nd.inputs)
        ELSE IF opt.status # kSUCCESS THEN Returning(Fail(opt.status, opt.net, opt.tensors), opt.inputs)
        ELSE IF ~hasW \/ ~hasR THEN Returning(Fail("kUNSUPPORTED_NODE", layer.net, opt.tensors), opt.inputs)
        ELSE IF nd.inputs[2].dtype # input_type \/ nd.inputs[3].dtype # input_type
        THEN Returning(Fail("kINVALID_NODE", layer.net, opt.tensors), opt.inputs)
        ELSE IF opt.has_bias /\ nd.inputs[4].kind # "weights"
        THEN Returning(Fail("kUNSUPPORTED_NODE", layer.net, opt.tensors), opt.inputs)
        ELSE IF opt.has_bias /\ nd.inputs[4].dtype # input_type
        THEN Returning(Fail("kINVALID_NODE", layer.net, opt.tensors), opt.inputs)
        ELSE IF ~(Len(nd.output) <= 3) THEN Returning(Fail("kINVALID_NODE", layer.net, opt.tensors), opt.inputs)
        ELSE Returning(Succeed(outs.net, opt.tensors, outs.outputs), opt.inputs)


\* ---- Transpose ----

\* nvinfer1::Dims::MAX_DIMS
MAX_DIMS == 8

\* the shape with dimension i taken from dimension perm[i] (0-based) of dims
PermutedDims(dims, perm) == [i \in 1..Len(dims) |-> dims[perm[i] + 1]]

\* whether the permutation moves a dimension of extent other than 1 before
\* an earlier one: from dst_i on, with the last significant source dimension
RECURSIVE TransposeRequiredFrom(_, _, _, _)
TransposeRequiredFrom(shape, perm, dst_i, prev_significant_dim) ==
    IF dst_i >= Len(shape) THEN FALSE
    ELSE LET src_i == perm[dst_i + 1]
             dim_i == shape[src_i + 1]
         IN  IF dim_i # 1
             THEN IF dim_i = -1 THEN TRUE
                  ELSE IF src_i < prev_significant_dim THEN TRUE
                  ELSE TransposeRequiredFrom(shape, perm, dst_i + 1, src_i)
             ELSE TransposeRequiredFrom(shape, perm, dst_i + 1, prev_significant_dim)

is_transpose_required(shape, perm) == TransposeRequiredFrom(shape, perm, 0, 0)

\* transpose_tensor: one shuffle layer, a transpose when one is required
\* and a reshape to the permuted shape otherwise
transpose_tensor(n, t, perm) ==
    addLayer(n, [type |-> "shuffle", ins |-> <<t.id>>,
                 dims |-> PermutedDims(t.dims, perm), dtype |-> t.dtype,
                 firstTranspose |-> IF is_transpose_required(t.dims, perm)
                                    THEN perm ELSE Iota(Len(perm)),
                 reshape |-> IF is_transpose_required(t.dims, perm)
                             THEN <<>> ELSE PermutedDims(t.dims, perm)])

\* the position in a row-major buffer (0-based) of the element at index idx
\* (0-based, one entry per dimension) of a value of shape dims
RECURSIVE FlatIndex(_, _)
FlatIndex(dims, idx) ==
    IF dims = <<>> THEN 0
    ELSE idx[Len(idx)] + dims[Len(dims)]
            * FlatIndex(SubSeq(dims, 1, Len(dims) - 1), SubSeq(idx, 1, Len(idx) - 1))

\* the index of the element at position q of a row-major buffer
RECURSIVE MultiIndex(_, _)
MultiIndex(dims, q) ==
    IF dims = <<>> THEN <<>>
    ELSE Append(MultiIndex(SubSeq(dims, 1, Len(dims) - 1), q \div dims[Len(dims)]),
                q % dims[Len(dims)])

\* transposeWeights: the result gets the permuted shape and, element by
\* element of the result, the value at the source index; weights of 2 and
\* of 4 dimensions only
transposeWeights(weights, perm) ==
    LET new_shape == PermutedDims(weights.dims, perm)
        source(q) ==
            LET dst == MultiIndex(new_shape, q)
                src == [d \in 1..Len(perm) |->
                           dst[CHOOSE e \in 1..Len(perm) : perm[e] = d - 1]]
            IN  FlatIndex(weights.dims, src)
    IN  IF Len(weights.dims) \notin {2, 4}
        THEN [ok |-> FALSE, result |-> weights]
        ELSE [ok |-> TRUE,
              result |-> Weights(new_shape, weights.dtype,
                                 [q \in 1..Volume(new_shape) |->
                                     weights.vals[source(q - 1) + 1]])]

\* faulty variant: weights are made a tensor and transposed by a layer
importTranspose_AsTensor(ctx, nd) ==
    LET input == convertToTensor(ctx.net, nd.inputs[1])
        ndim == Len(input.t.dims)
        perm == AttrGet(nd, "perm", [i \in 1..ndim |-> ndim - i])
        output_tensor == transpose_tensor(input.net, input.t, perm)
    IN  Succeed(output_tensor.net, ctx.tensors, <<output_tensor.t>>)

importTranspose(ctx, nd) ==
    LET input == nd.inputs[1]
        ndim == Len(input.dims)
        default_perm == [i \in 1..ndim |-> ndim - i]
        perm == AttrGet(nd, "perm", default_perm)
        output_tensor == transpose_tensor(ctx.net, input, perm)
        new_weights == transposeWeights(input, perm)
    IN  IF ~(ndim <= MAX_DIMS) THEN Fail("kUNSUPPORTED_NODE", ctx.net, ctx.tensors)
        ELSE IF input.kind = "tensor"
        THEN Succeed(output_tensor.net, ctx.tensors, <<output_tensor.t>>)
        ELSE IF ~new_weights.ok THEN Fail("kUNSUPPORTED_NODE", ctx.net, ctx.tensors)
        ELSE Succeed(ctx.net, ctx.tensors, <<new_weights.result>>)

\* ---- ConvTranspose ----

\* the quotient of two ints, truncated toward zero
TruncDiv(a, b) == IF a >= 0 THEN a \div b ELSE -((-a) \div b)

\* auto_gen_input_output_padding: with explicit pads the output padding is
\* what the requested extent exceeds the computed one by; in the SAME modes
\* the total input padding is computed and split between begin and end
auto_gen_input_output_padding(input_dims, output_shape, kernel_size, strides, dilations, nbSpatialDims, beg_padding, end_padding, output_padding, paddingMode) ==
    LET expected_output_shape ==
            [i \in 1..nbSpatialDims |->
                (input_dims[2 + i] - 1) * strides[i]
                    + (kernel_size[i] - 1) * dilations[i] + 1
                    - beg_padding[i] - end_padding[i]]
        total_padding ==
            [i \in 1..nbSpatialDims |->
                (input_dims[2 + i] - 1) * strides[i]
                    + (kernel_size[i] - 1) * dilations[i] + 1
                    + output_padding[i] - output_shape[i]]
    IN  IF paddingMode = "kEXPLICIT_ROUND_DOWN"
        THEN [beg_padding |-> beg_padding, end_padding |-> end_padding,
              output_padding |->
                  [i \in 1..nbSpatialDims |->
                      output_shape[i] - expected_output_shape[i]]]
        ELSE IF paddingMode = "kSAME_UPPER"
        THEN [beg_padding |->
                  [i \in 1..nbSpatialDims |->
                      total_padding[i] - TruncDiv(total_padding[i], 2)],
              end_padding |->
                  [i \in 1..nbSpatialDims |-> TruncDiv(total_padding[i], 2)],
              output_padding |-> output_padding]
        ELSE [beg_padding |->
                  [i \in 1..nbSpatialDims |-> TruncDiv(total_padding[i], 2)],
              end_padding |->
                  [i \in 1..nbSpatialDims |->
                      total_padding[i] - TruncDiv(total_padding[i], 2)],
              output_padding |-> output_padding]

\* the output padding the backend can apply: two axes, or three with none on
\* the first
SupportedOutputPadding(output_padding) ==
    \/ Len(output_padding) = 2
    \/ Len(output_padding) = 3 /\ output_padding[1] = 0

\* extent of an axis after the deconvolution layer with explicit pads
DeconvExtent(in, k, s, b, e) == (in - 1) * s + k - b - e

\* a 1D input (3 dimensions) is given a trailing axis of extent 1
ExpandedInput(c) ==
    IF Len(c.t.dims) = 3 THEN reshape_tensor(c.net, c.t, c.t.dims \o <<1>>) ELSE c

KernelShapeOf(w) == IF Len(w.dims) = 3 THEN w.dims \o <<1>> ELSE w.dims

\* the kernel_shape attribute, or the spatial extents of the weights
KernelSizeOf(nd, p, kernel_shape) ==
    IF HasAttr(nd, "kernel_shape") THEN p.kernel_size
    ELSE SubSeq(kernel_shape, 3, Len(kernel_shape))

\* the axes the loop from the last axis to the first one rejects: the kernel
\* differs from the weights, or the kernel is dilated
RejectedAxes(kernel_size, kernel_shape, dilations) ==
    { i \in 1..Len(kernel_size) : \/ kernel_size[i] # kernel_shape[i + 2]
                                  \/ dilations[i] # 1 }

\* the first axis the loop rejects, and the error of its first failing check
LastRejected(rejected) == CHOOSE i \in rejected : \A j \in rejected : j <= i

RejectionOf(axis, kernel_size, kernel_shape) ==
    IF kernel_size[axis] # kernel_shape[axis + 2] THEN "kUNSUPPORTED_NODE"
    ELSE "kUNSUPPORTED_GRAPH"

\* the pads and the output padding: generated when output_shape is given
DeconvPads(nd, dims, kernel_size, p) ==
    IF HasAttr(nd, "output_shape")
    THEN auto_gen_input_output_padding(dims, nd.attrs.output_shape, kernel_size, p.strides,
             p.dilations, Len(dims) - 2, p.beg_padding, p.end_padding, p.output_padding,
             p.paddingMode)
    ELSE [beg_padding |-> p.beg_padding, end_padding |-> p.end_padding,
          output_padding |-> p.output_padding]

addDeconvolution(x, noutput, kernel_size, p, g, ngroup) ==
    addLayer(x.net,
        [type |-> "deconvolution", ins |-> <<x.t.id>>,
         dims |-> <<x.t.dims[1], noutput>> \o
                  [i \in 1..(Len(x.t.dims) - 2) |->
                      DeconvExtent(x.t.dims[i + 2], kernel_size[i], p.strides[i],
                                   g.beg_padding[i], g.end_padding[i])],
         dtype |-> x.t.dtype, kernel_size |-> kernel_size, strides |-> p.strides,
         paddingMode |-> p.paddingMode, prePadding |-> g.beg_padding,
         postPadding |-> g.end_padding, ngroup |-> ngroup])

\* the output padding of the last two axes
OutputPaddingHW(output_padding) ==
    IF Len(output_padding) = 2 THEN output_padding ELSE SubSeq(output_padding, 2, 3)

\* a padding layer after the deconvolution, when there is output padding
addOutputPadding(deconv, output_padding_HW) ==
    IF output_padding_HW # <<0, 0>>
    THEN addLayer(deconv.net,
             [type |-> "padding", ins |-> <<deconv.t.id>>,
              dims |-> [i \in 1..Len(deconv.t.dims) |->
                           IF i >= Len(deconv.t.dims) - 1
                           THEN deconv.t.dims[i]
                                    + output_padding_HW[i - Len(deconv.t.dims) + 2]
                           ELSE deconv.t.dims[i]],
              dtype |-> deconv.t.dtype, prePadding |-> <<0, 0>>,
              postPadding |-> output_padding_HW])
    ELSE deconv

\* the trailing axis given to a 1D input is removed again
ConvTransposeResult(ctx, nd, padded) ==
    IF Len(nd.inputs[1].dims) = 3
    THEN Succeed(reshape_tensor(padded.net, padded.t, SubSeq(padded.t.dims, 1, 3)).net,
                 ctx.tensors,
                 <<reshape_tensor(padded.net, padded.t, SubSeq(padded.t.dims, 1, 3)).t>>)
    ELSE Succeed(padded.net, ctx.tensors, <<padded.t>>)

ConvTransposePadded(ctx, nd, x, kernel_shape, p, kernel_size, g) ==
    IF ~SupportedOutputPadding(g.output_padding)
    THEN Fail("kUNSUPPORTED_NODE", x.net, ctx.tensors)
    ELSE ConvTransposeResult(ctx, nd,
             addOutputPadding(addDeconvolution(x, kernel_shape[2] * AttrGet(nd, "group", 1),
                                               kernel_size, p, g, AttrGet(nd, "group", 1)),
                              OutputPaddingHW(g.output_padding)))

ConvTransposeKernel(ctx, nd, x, kernel_shape, p, kernel_size, rejected) ==
    IF rejected # {}
    THEN Fail(RejectionOf(LastRejected(rejected), kernel_size, kernel_shape),
              x.net, ctx.tensors)
    ELSE ConvTransposePadded(ctx, nd, x, kernel_shape, p, kernel_size,
                             DeconvPads(nd, x.t.dims, kernel_size, p))

ConvTransposeParams(ctx, nd, x, kernel_shape, p, kernel_size) ==
    IF ~SupportedOutputPadding(p.output_padding)
    THEN Fail("kUNSUPPORTED_NODE", x.net, ctx.tensors)
    ELSE ConvTransposeKernel(ctx, nd, x, kernel_shape, p, kernel_size,
                             RejectedAxes(kernel_size, kernel_shape, p.dilations))

ConvTransposeWeights(ctx, nd, x, kernel_shape, p) ==
    IF Len(x.t.dims) - 2 # Len(kernel_shape) - 2
    THEN Fail("kUNSUPPORTED_NODE", x.net, ctx.tensors)
    ELSE IF Len(nd.inputs) = 3 /\ nd.inputs[3].kind # "weights"
    THEN Fail("kUNSUPPORTED_NODE", x.net, ctx.tensors)
    ELSE IF Len(nd.inputs) = 3 /\ Len(nd.inputs[3].dims) # 1
    THEN Fail("kINVALID_NODE", x.net, ctx.tensors)
    ELSE IF Len(nd.inputs) = 3 /\ nd.inputs[3].dims[1] # kernel_shape[2]
    THEN Fail("kINVALID_NODE", x.net, ctx.tensors)
    ELSE IF kernel_shape[1] # x.t.dims[2] THEN Fail("kINVALID_NODE", x.net, ctx.tensors)
    ELSE ConvTransposeParams(ctx, nd, x, kernel_shape, p, KernelSizeOf(nd, p, kernel_shape))

ConvTransposeInput(ctx, nd, x) ==
    ConvTransposeWeights(ctx, nd, x, KernelShapeOf(nd.inputs[2]),
                         get_kernel_params(nd, Len(x.t.dims) - 2))

importConvTranspose(ctx, nd) ==
    IF ~(Len(nd.inputs[1].dims) >= 3) THEN Fail("kUNSUPPORTED_NODE", ctx.net, ctx.tensors)
    ELSE IF nd.inputs[2].kind # "weights"
    THEN Fail("kUNSUPPORTED_NODE", ctx.net, ctx.tensors)
    ELSE ConvTransposeInput(ctx, nd,
                            ExpandedInput(convertToTensor(ctx.net, nd.inputs[1])))

\* ---- SpaceToDepth and DepthToSpace ----

\* the product of the entries of a shape from position a to position b
RECURSIVE ProductOf(_, _, _)
ProductOf(d, a, b) == IF a > b THEN 1 ELSE d[a] * ProductOf(d, a + 1, b)

\* the shuffle layer of both importers: a reshape, then a transpose
addShuffle(n, t, reshape, perm) ==
    addLayer(n, [type |-> "shuffle", ins |-> <<t.id>>,
                 dims |-> PermutedDims(reshape, perm), dtype |-> t.dtype,
                 reshape |-> reshape, secondTranspose |-> perm])

importDepthToSpace(ctx, nd) ==
    LET c == convertToTensor(ctx.net, nd.inputs[1])
        block_size == nd.attrs.blocksize
        dims == c.t.dims
        ndim_spatial == Len(dims) - 2
        \* the channels after i divisions by the block size
        channels == [i \in 0..ndim_spatial |->
                        dims[2] \div ProductOf([j \in 1..i |-> block_size], 1, i)]
        new_shape1 == [j \in 1..(Len(dims) + ndim_spatial) |->
                          IF j = 1 THEN dims[1]
                          ELSE IF j <= ndim_spatial + 1 THEN block_size
                          ELSE IF j = ndim_spatial + 2 THEN channels[ndim_spatial]
                          ELSE dims[j - ndim_spatial]]
        perm == [j \in 1..(Len(dims) + ndim_spatial) |->
                    IF j = 1 THEN 0
                    ELSE IF j = 2 THEN ndim_spatial + 1
                    ELSE IF (j - 1) % 2 = 0 THEN ndim_spatial + 1 + ((j - 1) \div 2)
                    ELSE (j - 1) \div 2]
        layer == addShuffle(c.net, c.t, new_shape1, perm)
        d1 == layer.t.dims
        new_shape2 == [j \in 1..(Len(d1) - ndim_spatial) |->
                          IF j <= 2 THEN d1[j]
                          ELSE d1[2 * (j - 2) + 1] * d1[2 * (j - 2) + 2]]
        out == reshape_tensor(layer.net, layer.t, new_shape2)
        \* the shuffle layer as it is when an ASSERT returns: nothing set
        unset == addLayer(c.net, [type |-> "shuffle", ins |-> <<c.t.id>>,
                                  dims |-> dims, dtype |-> c.t.dtype])
    IN  IF Len(nd.inputs[1].dims) # 4 THEN Fail("kUNSUPPORTED_NODE", ctx.net, ctx.tensors)
        ELSE IF \E i \in 1..ndim_spatial : channels[i - 1] % block_size # 0
        THEN Fail("kINVALID_NODE", unset.net, ctx.tensors)
        ELSE Succeed(out.net, ctx.tensors, <<out.t>>)

importSpaceToDepth(ctx, nd) ==
    LET c == convertToTensor(ctx.net, nd.inputs[1])
        block_size == nd.attrs.blocksize
        dims == c.t.dims
        ndim_spatial == Len(dims) - 1
        new_shape1 == [j \in 1..(Len(dims) + ndim_spatial) |->
                          IF j = 1 THEN dims[1]
                          ELSE IF j % 2 = 0 THEN dims[(j \div 2) + 1] \div block_size
                          ELSE block_size]
        perm == [j \in 1..(Len(dims) + ndim_spatial) |->
                    IF j <= ndim_spatial THEN 2 * j
                    ELSE IF j = ndim_spatial + 1 THEN 0
                    ELSE 1 + 2 * (j - ndim_spatial - 2)]
        layer == addShuffle(c.net, c.t, new_shape1, perm)
        d1 == layer.t.dims
        new_shape2 == [j \in 1..(Len(d1) - ndim_spatial) |->
                          IF j = 1 THEN d1[ndim_spatial + 1] * ProductOf(d1, 1, ndim_spatial)
                          ELSE d1[ndim_spatial + j]]
        out == reshape_tensor(layer.net, layer.t, new_shape2)
        unset == addLayer(c.net, [type |-> "shuffle", ins |-> <<c.t.id>>,
                                  dims |-> dims, dtype |-> c.t.dtype])
    IN  IF \E i \in 1..ndim_spatial : dims[1 + i] % block_size # 0
        THEN Fail("kINVALID_NODE", unset.net, ctx.tensors)
        ELSE Succeed(out.net, ctx.tensors, <<out.t>>)

\* ---- GRU ----

NUM_GATES == 3

GRUDefaultActivations(numDirections) ==
    IF numDirections = 2 THEN <<"Sigmoid", "Tanh", "Sigmoid", "Tanh">>
    ELSE <<"Sigmoid", "Tanh">>

\* the weights and the recurrence weights, each split into those of the z
\* and r gates and those of the h gate
GRUSplitWeights(b) ==
    LET b1 == BindLayer(b, "weightsZR", PlainLayer("slice", <<"weights">>))
        b2 == BindLayer(b1, "weightsH", PlainLayer("slice", <<"weights">>))
        b3 == BindLayer(b2, "recurrenceWeightsZR",
                        PlainLayer("slice", <<"recurrenceWeights">>))
    IN  BindLayer(b3, "recurrenceWeightsH", PlainLayer("slice", <<"recurrenceWeights">>))

\* the bias, when given, unsqueezed and split four ways
GRUSplitBias(b, nd) ==
    IF b.status # kSUCCESS \/ ~Given(nd.inputs, 4) THEN b
    ELSE LET b1 == BindTensor(b, "bias", nd.inputs[4])
             b2 == BindLayer(b1, "concatenatedBias", PlainLayer("shuffle", <<"bias">>))
             b3 == BindLayer(b2, "biasZR", PlainLayer("slice", <<"concatenatedBias">>))
             b4 == BindLayer(b3, "biasH", PlainLayer("slice", <<"concatenatedBias">>))
             b5 == BindLayer(b4, "recurrenceBiasZR",
                             PlainLayer("slice", <<"concatenatedBias">>))
         IN  BindLayer(b5, "recurrenceBiasH", PlainLayer("slice", <<"concatenatedBias">>))

\* stackedZR(t) = f(X(t) * W[zr]^T + H(t-1) * R[zr]^T + (Wb[zr] + Rb[zr]))
GRUStackedZR(b, activations) ==
    LET b1 == BindLayer(b, "xtWTZR",
                        PlainLayer("matrix_multiply", <<"iterationInput", "weightsZR">>))
        b2 == BindLayer(b1, "ht1RT",
                        PlainLayer("matrix_multiply", <<"Ht1", "recurrenceWeightsZR">>))
        b3 == BindLayer(b2, "stackedZRt", ElementWiseLayer(<<"xtWTZR", "ht1RT">>, "kSUM"))
        b4 == IF b.status = kSUCCESS /\ "biasZR" \in DOMAIN b.t
              THEN BindLayer(BindLayer(b3, "stackedZRt",
                                       ElementWiseLayer(<<"stackedZRt", "biasZR">>, "kSUM")),
                             "stackedZRt",
                             ElementWiseLayer(<<"stackedZRt", "recurrenceBiasZR">>, "kSUM"))
              ELSE b3
    IN  BindLayer(b4, "stackedZRt", ActivationLayer(<<"stackedZRt">>, activations[1]))

\* h(t) = g(X(t) * W[h]^T + (r(t) . H(t-1)) * R[h]^T + Rb[h] + Wb[h])
GRUCandidate(b, activations) ==
    LET b1 == BindLayer(b, "rtHt1", ElementWiseLayer(<<"rt", "Ht1">>, "kPROD"))
        b2 == BindLayer(b1, "rtHt1Rh",
                        PlainLayer("matrix_multiply", <<"rtHt1", "recurrenceWeightsH">>))
        b3 == BindLayer(b2, "actInput", ElementWiseLayer(<<"xtWTH", "rtHt1Rh">>, "kSUM"))
        b4 == IF b.status = kSUCCESS /\ "biasH" \in DOMAIN b.t
              THEN BindLayer(BindLayer(b3, "secondSum",
                                       ElementWiseLayer(<<"recurrenceBiasH", "biasH">>,
                                                        "kSUM")),
                             "actInput",
                             ElementWiseLayer(<<"actInput", "secondSum">>, "kSUM"))
              ELSE b3
    IN  BindLayer(b4, "ht", ActivationLayer(<<"actInput">>, activations[2]))

\* h(t) = g(X(t) * W[h]^T + (r(t) . (H(t-1) * R[h]^T + Rb[h])) + Wb[h])
GRUCandidateLinearBeforeReset(b, activations) ==
    LET b1 == BindLayer(b, "ht1Rh",
                        PlainLayer("matrix_multiply", <<"Ht1", "recurrenceWeightsH">>))
        b2 == IF b.status = kSUCCESS /\ "recurrenceBiasH" \in DOMAIN b.t
              THEN BindLayer(b1, "ht1Rh",
                             ElementWiseLayer(<<"ht1Rh", "recurrenceBiasH">>, "kSUM"))
              ELSE b1
        b3 == BindLayer(b2, "rtHtRhRbh", ElementWiseLayer(<<"rt", "ht1Rh">>, "kPROD"))
        b4 == IF b.status = kSUCCESS /\ "biasH" \in DOMAIN b.t
              THEN BindLayer(b3, "rtHtRhRbh",
                             ElementWiseLayer(<<"rtHtRhRbh", "biasH">>, "kSUM"))
              ELSE b3
        b5 == BindLayer(b4, "actInput", ElementWiseLayer(<<"xtWTH", "rtHtRhRbh">>, "kSUM"))
    IN  BindLayer(b5, "ht", ActivationLayer(<<"actInput">>, activations[2]))

\* z(t) . H(t-1), the second argument of the sum that makes H(t)
GRUKept(b) == BindLayer(b, "zHt1", ElementWiseLayer(<<"zt", "Ht1">>, "kPROD"))

\* the steps of (1 - z(t)) . h(t), the first argument of that sum
GRUOne(b) == BindConstantScalar(b, "one", 1, "FLOAT", <<1, 1, 1>>)

GRUOneMinusZ(b) == BindLayer(b, "oneMinusZ", ElementWiseLayer(<<"one", "zt">>, "kSUB"))

GRUFresh(b) == BindLayer(b, "fresh", ElementWiseLayer(<<"oneMinusZ", "ht">>, "kPROD"))

\* H(t) = (1 - z(t)) . h(t) + (z(t) . H(t-1)); the two products are arguments
\* of one call, so the second is made before, between or after the calls
\* that make the first (zPos of them precede it); then Ht1->setInput(1, Ht)
GRUState(b, zPos) ==
    LET b1 == IF b.status # kSUCCESS THEN b
              ELSE CASE zPos = 0 -> GRUFresh(GRUOneMinusZ(GRUOne(GRUKept(b))))
                     [] zPos = 1 -> GRUFresh(GRUOneMinusZ(GRUKept(GRUOne(b))))
                     [] zPos = 2 -> GRUFresh(GRUKept(GRUOneMinusZ(GRUOne(b))))
                     [] OTHER -> GRUKept(GRUFresh(GRUOneMinusZ(GRUOne(b))))
        b2 == BindLayer(b1, "Ht", ElementWiseLayer(<<"fresh", "zHt1">>, "kSUM"))
    IN  SetUpdate(b2, "Ht1", "Ht")

\* Y, all H(t) concatenated, and Yh, the last H(t)
GRUOutputs(b) ==
    LET b1 == BindLoopLayer(b, "Y", LoopOutputLayer(<<"Ht">>, "kCONCATENATE"))
        b2 == getAxisLength(b1, "length", "input", 0)
        b3 == SetInputs(b2, "Y", <<"Ht", "length">>)
    IN  BindLoopLayer(b3, "Yh", LoopOutputLayer(<<"Ht1">>, "kLAST_VALUE"))

GRUResult(b, tt) ==
    IF b.status # kSUCCESS THEN Fail(b.status, b.net, tt)
    ELSE Succeed(b.net, tt, <<b.t["Y"], b.t["Yh"]>>)

importGRU(ctx, nd, zPos) ==
    LET direction == AttrGet(nd, "direction", "forward")
        numDirections == IF direction = "bidirectional" THEN 2 ELSE 1
        hiddenSize == nd.attrs.hidden_size
        linearBeforeReset == AttrGet(nd, "linear_before_reset", 0)
        clip == AttrGet(nd, "clip", -1)
        activations == AttrGet(nd, "activations", GRUDefaultActivations(numDirections))
        a1 == Require(Builder(ctx.net), clip = -1, "kUNSUPPORTED_NODE")
        b1 == LSTMInputTensors(a1, nd)
        a2 == Require(b1, numDirections = 2
                              => SubSeq(activations, 1, 2) = SubSeq(activations, 3, 4),
                      "kUNSUPPORTED_NODE")
        b2 == GRUSplitBias(GRUSplitWeights(a2), nd)
        b3 == LSTMLoop(initialStateShape(b2, numDirections, hiddenSize))
        b4 == LSTMIterationInput(b3, direction)
        b5 == getInitialInputValue(b4, "initialHidden", nd.inputs, 5)
        b6 == BindLoopLayer(b5, "Ht1", RecurrenceLayer(<<"initialHidden">>))
        b7 == GRUStackedZR(b6, activations)
        b8 == isolateGate(isolateGate(b7, "zt", "stackedZRt", 0, hiddenSize),
                          "rt", "stackedZRt", 1, hiddenSize)
        b9 == BindLayer(b8, "xtWTH",
                        PlainLayer("matrix_multiply", <<"iterationInput", "weightsH">>))
        b10 == IF linearBeforeReset = 0 THEN GRUCandidate(b9, activations)
               ELSE GRUCandidateLinearBeforeReset(b9, activations)
    IN  GRUResult(GRUOutputs(GRUState(b10, zPos)), ctx.tensors)

\* ---- Softmax, LogSoftmax and the reductions made of other importers ----

\* what an importer returns, with the status every helper and nested
\* importer it called reported, in the order of the calls
Nested(r, helpers) ==
    [status |-> r.status, net |-> r.net, tensors |-> r.tensors, outputs |-> r.outputs,
     helpers |-> helpers]

\* the context after an importer returned
After(r) == [net |-> r.net, tensors |-> r.tensors]

\* apply_unary_function: a unary layer over the input as a tensor; made is
\* whether the network made the layer
apply_unary_function(ctx, input, op, made) ==
    LET c == convertToTensor(ctx.net, input)
        u == addLayer(c.net, [type |-> "unary", ins |-> <<c.t.id>>, dims |-> c.t.dims,
                              dtype |-> c.t.dtype, operation |-> op])
    IN  IF ~made THEN Fail("kUNSUPPORTED_NODE", c.net, ctx.tensors)
        ELSE Succeed(u.net, ctx.tensors, <<u.t>>)

\* convert_tensor_to_2d: the axes before axis folded into one, and the others
convert_tensor_to_2d(n, t, axis) ==
    reshape_tensor(n, t, <<ProductOf(t.dims, 1, axis),
                           ProductOf(t.dims, axis + 1, Len(t.dims))>>)

addSoftMax(n, t, axis) ==
    addLayer(n, [type |-> "softmax", ins |-> <<t.id>>, dims |-> t.dims,
                 dtype |-> t.dtype, axes |-> {axis}])

importSoftmax(ctx, nd) ==
    LET nbDims == Len(nd.inputs[1].dims)
        ax == convert_axis(AttrGet(nd, "axis", 1), nbDims)
        c == convertToTensor(ctx.net, nd.inputs[1])
        shape == c.t.dims
    IN  IF ~ax.ok THEN Fail(InvalidAttribute, ctx.net, ctx.tensors)
        ELSE IF Len(shape) = ax.axis + 1
        THEN LET layer == addSoftMax(c.net, c.t, ax.axis)
             IN  Succeed(layer.net, ctx.tensors, <<layer.t>>)
        ELSE LET flat == convert_tensor_to_2d(c.net, c.t, ax.axis)
                 layer == addSoftMax(flat.net, flat.t, 1)
                 back == reshape_tensor(layer.net, layer.t, shape)
             IN  Succeed(back.net, ctx.tensors, <<back.t>>)

\* what the importer returns when the helper it called last returned u
NestedAfter(u, helpers) == Nested(u, helpers \o <<u.status>>)

\* if (r.is_error()) return r; return apply_unary_function(ctx, r.value().at(0), op)
\* (before: the status of the helpers called before the one that returned r)
ThenUnary(r, before, op, made) ==
    IF r.status # kSUCCESS THEN NestedAfter(r, before)
    ELSE NestedAfter(apply_unary_function(After(r), r.outputs[1], op, made),
                     before \o <<r.status>>)

UnaryOver(r, op, made) == ThenUnary(r, <<>>, op, made)

importLogSoftmax(ctx, nd, made) == UnaryOver(importSoftmax(ctx, nd), "kLOG", made)

\* the axes as reduceTensor checks them, one after the other: the first that
\* convert_axis rejects ends the loop
RECURSIVE ReduceAxes(_, _, _, _)
ReduceAxes(axes, ndim, i, st) ==
    IF i > Len(axes) \/ ~st.ok THEN st
    ELSE LET ax == convert_axis(axes[i], ndim)
         IN  ReduceAxes(axes, ndim, i + 1,
                        [ok |-> ax.ok,
                         axisMask |-> IF ax.ok THEN st.axisMask \cup {ax.axis}
                                      ELSE st.axisMask])

\* dimensions of the reduction of the axes of axisMask (from 0)
RECURSIVE ReducedDims(_, _, _, _)
ReducedDims(dims, axisMask, keepdims, i) ==
    IF i > Len(dims) THEN <<>>
    ELSE (IF (i - 1) \notin axisMask THEN <<dims[i]>>
          ELSE IF keepdims THEN <<1>> ELSE <<>>)
         \o ReducedDims(dims, axisMask, keepdims, i + 1)

reduceTensor(ctx, nd, input, operation) ==
    LET c == convertToTensor(ctx.net, input)
        keepdims == AttrGet(nd, "keepdims", 1) # 0
        ndim == Len(c.t.dims)
        axes == IF HasAttr(nd, "axes") THEN nd.attrs.axes ELSE Iota(ndim)
        st == ReduceAxes(axes, ndim, 1, [ok |-> TRUE, axisMask |-> {}])
        layer == addLayer(c.net, [type |-> "reduce", ins |-> <<c.t.id>>,
                                  dims |-> ReducedDims(c.t.dims, st.axisMask, keepdims, 1),
                                  dtype |-> c.t.dtype, operation |-> operation,
                                  axisMask |-> st.axisMask, keepdims |-> keepdims])
    IN  IF ~st.ok THEN Fail(InvalidAttribute, c.net, ctx.tensors)
        ELSE Succeed(layer.net, ctx.tensors, <<layer.t>>)

importReduceSum(ctx, nd) == reduceTensor(ctx, nd, nd.inputs[1], "kSUM")

importReduceLogSum(ctx, nd, made) == UnaryOver(importReduceSum(ctx, nd), "kLOG", made)

\* if (exp_result.is_error()) return exp_result;
\* return importReduceLogSum(ctx, node, exp_result.value())
ThenReduceLogSum(exp_result, nd, made) ==
    IF exp_result.status # kSUCCESS THEN NestedAfter(exp_result, <<>>)
    ELSE ThenUnary(importReduceSum(After(exp_result),
                                   [nd EXCEPT !.inputs = exp_result.outputs]),
                   <<exp_result.status>>, "kLOG", made)

importReduceLogSumExp(ctx, nd, madeExp, made) ==
    ThenReduceLogSum(apply_unary_function(ctx, nd.inputs[1], "kEXP", madeExp), nd, made)

\* the square of the tensor, then its reduction
SquareOf(n, tensor) ==
    addLayer(n, [type |-> "elementwise", ins |-> <<tensor.id, tensor.id>>,
                 dims |-> tensor.dims, dtype |-> tensor.dtype, op |-> "kPROD"])

ReduceSquare(sqr_layer, ctx, nd) ==
    reduceTensor([net |-> sqr_layer.net, tensors |-> ctx.tensors], nd, sqr_layer.t, "kSUM")

importReduceSumSquare(ctx, nd) == ReduceSquare(SquareOf(ctx.net, nd.inputs[1]), ctx, nd)

importReduceL2(ctx, nd, made) == UnaryOver(importReduceSumSquare(ctx, nd), "kSQRT", made)


\* ---- Unsqueeze ----

\* what an entry of a Dims that was never written may hold
Indeterminate == {0, 4}

\* the entries d[0 .. MAX_DIMS - 1] of a Dims of the given extents; the
\* entries from nbDims on hold what the memory held
DimsArray(dims, stale) ==
    [k \in 0..(MAX_DIMS - 1) |-> IF k < Len(dims) THEN dims[k + 1] ELSE stale]

\* the loop of Unsqueeze from positions i and j on: position i + j of the
\* output is a new axis when it is among the axes, else axis i of the input;
\* st holds perm.order and new_shape.d, the positions of old_shape.d read and
\* the positions of new_shape.d and of perm.order written
RECURSIVE UnsqueezeLoop(_, _, _, _, _, _)
UnsqueezeLoop(i, j, ndim_in, old_shape, axes_set, st) ==
    IF ~((i + j) < ndim_in + Cardinality(axes_set)) THEN st
    ELSE IF (i + j) \in axes_set
    THEN UnsqueezeLoop(i, j + 1, ndim_in, old_shape, axes_set,
            [st EXCEPT !.order[i + j] = ndim_in + j,
                       !.d[ndim_in + j] = 1,
                       !.ordered = @ \cup {i + j},
                       !.wrote = @ \cup {ndim_in + j}])
    ELSE UnsqueezeLoop(i + 1, j, ndim_in, old_shape, axes_set,
            [st EXCEPT !.order[i + j] = i,
                       !.d[i] = IF old_shape[i] < 0 THEN 0 ELSE old_shape[i],
                       !.ordered = @ \cup {i + j},
                       !.read = @ \cup {i},
                       !.wrote = @ \cup {i}])

\* perm and new_shape as they are declared
NothingPlaced(staleOut) ==
    [order |-> [k \in 0..(MAX_DIMS - 1) |-> 0],
     d |-> [k \in 0..(MAX_DIMS - 1) |-> staleOut],
     ordered |-> {}, read |-> {}, wrote |-> {}]

\* the loop of Unsqueeze over the node: old_shape holds staleIn and new_shape
\* holds staleOut where they were not written; the loop is not reached with
\* more than MAX_DIMS output axes
UnsqueezePlacement(nd, staleIn, staleOut) ==
    LET ndim_in == Len(nd.inputs[1].dims)
        axes_set == { nd.attrs.axes[k] : k \in 1..Len(nd.attrs.axes) }
    IN  IF ~(ndim_in + Cardinality(axes_set) <= MAX_DIMS) THEN NothingPlaced(staleOut)
        ELSE UnsqueezeLoop(0, 0, ndim_in, DimsArray(nd.inputs[1].dims, staleIn), axes_set,
                           NothingPlaced(staleOut))

importUnsqueeze(ctx, nd, staleIn, staleOut) ==
    LET tensor == convertToTensor(ctx.net, nd.inputs[1])
        ndim_in == Len(tensor.t.dims)
        axes_set == { nd.attrs.axes[k] : k \in 1..Len(nd.attrs.axes) }
        ndim_out == ndim_in + Cardinality(axes_set)
        st == UnsqueezePlacement(nd, staleIn, staleOut)
        new_shape == [k \in 1..ndim_out |-> st.d[k - 1]]
        perm == [k \in 1..ndim_out |-> st.order[k - 1]]
        layer == addLayer(tensor.net,
                    [type |-> "shuffle", ins |-> <<tensor.t.id>>,
                     dims |-> PermutedDims(new_shape, perm), dtype |-> tensor.t.dtype,
                     reshape |-> new_shape, secondTranspose |-> perm])
    IN  IF ~(ndim_out <= MAX_DIMS) THEN Fail("kUNSUPPORTED_NODE", tensor.net, ctx.tensors)
        ELSE Succeed(layer.net, ctx.tensors, <<layer.t>>)


\* ---- Gemm ----

\* squeeze_trailing_dims and squeeze_leading_dims: extents of 1 are dropped
\* from the end (from the front) while more than one dimension is left
RECURSIVE squeeze_trailing_dims(_)
squeeze_trailing_dims(dims) ==
    IF Len(dims) > 1 /\ dims[Len(dims)] = 1
    THEN squeeze_trailing_dims(SubSeq(dims, 1, Len(dims) - 1))
    ELSE dims

RECURSIVE squeeze_leading_dims(_)
squeeze_leading_dims(dims) ==
    IF Len(dims) > 1 /\ dims[1] = 1 THEN squeeze_leading_dims(Tail(dims)) ELSE dims

\* broadcast_tensors: the tensor of lower rank is reshaped with leading ones
\* to the rank of the other
broadcast_tensors(n, t1, t2) ==
    IF Len(t1.dims) = Len(t2.dims) THEN [net |-> n, t1 |-> t1, t2 |-> t2]
    ELSE IF Len(t1.dims) < Len(t2.dims)
    THEN LET r == reshape_tensor(n, t1, expand_dims(t1.dims, Len(t2.dims)))
         IN  [net |-> r.net, t1 |-> r.t, t2 |-> t2]
    ELSE LET r == reshape_tensor(n, t2, expand_dims(t2.dims, Len(t1.dims)))
         IN  [net |-> r.net, t1 |-> t1, t2 |-> r.t]

\* getMatrixOp of importGemm
getMatrixOp(input, transpose) ==
    IF Len(input.dims) = 1 THEN "kVECTOR"
    ELSE IF transpose THEN "kTRANSPOSE"
    ELSE "kNONE"

\* the rows and the columns of a matrix operand of two dimensions
MatrixRows(dims, op) == IF op = "kTRANSPOSE" THEN dims[2] ELSE dims[1]

MatrixCols(dims, op) == IF op = "kTRANSPOSE" THEN dims[1] ELSE dims[2]

\* network()->addMatrixMultiply: the layer keeps the shapes of its operands;
\* a vector operand gives no dimension to the output
addMatrixMultiply(n, a, opA, b, opB) ==
    addLayer(n, [type |-> "matmul", ins |-> <<a.id, b.id>>,
                 dims |-> (IF opA = "kVECTOR" THEN <<>> ELSE <<MatrixRows(a.dims, opA)>>)
                            \o (IF opB = "kVECTOR" THEN <<>> ELSE <<MatrixCols(b.dims, opB)>>),
                 dtype |-> a.dtype, opA |-> opA, opB |-> opB,
                 shapes |-> <<a.dims, b.dims>>])

\* network()->addFullyConnected: the last three dimensions become
\* nbOutputs, 1, 1
addFullyConnected(n, t, nbOutputs, kernel, bias) ==
    addLayer(n, [type |-> "fullyconnected", ins |-> <<t.id>>,
                 dims |-> SubSeq(t.dims, 1, Len(t.dims) - 3) \o <<nbOutputs, 1, 1>>,
                 dtype |-> t.dtype, nbOutputs |-> nbOutputs, kernel |-> kernel,
                 bias |-> bias, shapes |-> <<t.dims>>])

\* network()->addElementWise of two tensors of one rank
addElementWise(n, a, b, op) ==
    addLayer(n, [type |-> "elementwise", ins |-> <<a.id, b.id>>,
                 dims |-> BroadcastDims(a.dims, b.dims), dtype |-> a.dtype,
                 operation |-> op])

\* the three inputs of Gemm as tensors
GemmConverted(ctx, nd) ==
    LET a == convertToTensor(ctx.net, nd.inputs[1])
        b == convertToTensor(a.net, nd.inputs[2])
        c == convertToTensor(b.net, nd.inputs[3])
    IN  [net |-> c.net, inputA |-> a.t, inputB |-> b.t, inputC |-> c.t]

canUseFC(nd) ==
    /\ nd.inputs[1].kind = "tensor"
    /\ nd.inputs[2].kind = "weights"
    /\ nd.inputs[3].kind = "weights"
    /\ AttrGet(nd, "alpha", 1) = 1
    /\ AttrGet(nd, "beta", 1) = 1
    /\ Len(nd.inputs[1].dims) = 3
    /\ Len(nd.inputs[2].dims) = 2
    /\ Len(nd.inputs[3].dims) = 1

\* RETURN_FIRST_OUTPUT(layer) and return {{biasAdd->getOutput(0)}}
gemmReturn(tt, layer) == Succeed(layer.net, tt, <<layer.t>>)

\* Gemm as a fully connected layer over constant B and C
gemmFullyConnectedOf(tt, nd, n, weights) ==
    gemmReturn(tt, addFullyConnected(n, nd.inputs[1], nd.inputs[3].dims[1], weights,
                                     nd.inputs[3]))

gemmFullyConnected(ctx, nd) ==
    IF AttrGet(nd, "transB", 0) # 0
    THEN gemmFullyConnectedOf(ctx.tensors, nd, GemmConverted(ctx, nd).net, nd.inputs[2])
    ELSE IF ~transposeWeights(nd.inputs[2], <<1, 0>>).ok
    THEN Fail("kUNSUPPORTED_NODE", GemmConverted(ctx, nd).net, ctx.tensors)
    ELSE gemmFullyConnectedOf(ctx.tensors, nd, GemmConverted(ctx, nd).net,
                              transposeWeights(nd.inputs[2], <<1, 0>>).result)

\* Gemm as a matrix multiplication, scaled by alpha, plus C scaled by beta;
\* the steps from the last to the first, each handing on what it made

\* the sum of the product and the bias, both of one rank
gemmSum(tt, b) == gemmReturn(tt, addElementWise(b.net, b.t1, b.t2, "kSUM"))

gemmBroadcastBias(tt, matmulTensor, bias) ==
    gemmSum(tt, broadcast_tensors(bias.net, matmulTensor, bias.t))

\* before opset 7 and without broadcast the leading ones of C are dropped
gemmBias(tt, nd, matmulTensor, bias) ==
    IF nd.opset < 7 /\ AttrGet(nd, "broadcast", 0) = 0
    THEN gemmBroadcastBias(tt, matmulTensor,
            reshape_tensor(bias.net, bias.t, squeeze_leading_dims(bias.t.dims)))
    ELSE gemmBroadcastBias(tt, matmulTensor, bias)

gemmBetaBroadcast(tt, nd, matmulTensor, b) ==
    gemmBias(tt, nd, matmulTensor, addElementWise(b.net, b.t1, b.t2, "kPROD"))

gemmBetaConstant(tt, nd, matmulTensor, inputC, betaConstant) ==
    gemmBetaBroadcast(tt, nd, matmulTensor,
                      broadcast_tensors(betaConstant.net, betaConstant.t, inputC))

\* C is scaled if beta is not 1
gemmScaleBias(tt, nd, scaledMatmul, inputC) ==
    IF AttrGet(nd, "beta", 1) # 1
    THEN gemmBetaConstant(tt, nd, scaledMatmul.t, inputC,
            addConstantScalar(scaledMatmul.net, AttrGet(nd, "beta", 1), "FLOAT", <<>>))
    ELSE gemmBias(tt, nd, scaledMatmul.t, [net |-> scaledMatmul.net, t |-> inputC])

gemmAlphaBroadcast(tt, nd, inputC, b) ==
    gemmScaleBias(tt, nd, addElementWise(b.net, b.t1, b.t2, "kPROD"), inputC)

gemmAlphaConstant(tt, nd, inputC, matmulTensor, alphaConstant) ==
    gemmAlphaBroadcast(tt, nd, inputC,
                       broadcast_tensors(alphaConstant.net, alphaConstant.t, matmulTensor))

\* A * B is scaled if alpha is not 1
gemmScale(tt, nd, inputC, matmul) ==
    IF AttrGet(nd, "alpha", 1) # 1
    THEN gemmAlphaConstant(tt, nd, inputC, matmul.t,
            addConstantScalar(matmul.net, AttrGet(nd, "alpha", 1), "FLOAT", <<>>))
    ELSE gemmScaleBias(tt, nd, matmul, inputC)

gemmMultiply(tt, nd, inputC, inputASqueezed, inputB, transB) ==
    gemmScale(tt, nd, inputC,
              addMatrixMultiply(inputASqueezed.net, inputASqueezed.t,
                                getMatrixOp(inputASqueezed.t, AttrGet(nd, "transA", 0) # 0),
                                inputB, getMatrixOp(inputB, transB)))

\* the shape A is given: without its trailing ones, flattened if more than
\* two dimensions are left
GemmNewDims(dims) ==
    IF Len(squeeze_trailing_dims(dims)) > 2 THEN <<Volume(dims)>>
    ELSE squeeze_trailing_dims(dims)

gemmSqueezeA(tt, nd, cv, n, inputB, transB) ==
    IF Len(GemmNewDims(cv.inputA.dims)) < Len(cv.inputA.dims)
    THEN gemmMultiply(tt, nd, cv.inputC,
                      reshape_tensor(n, cv.inputA, GemmNewDims(cv.inputA.dims)),
                      inputB, transB)
    ELSE gemmMultiply(tt, nd, cv.inputC, [net |-> n, t |-> cv.inputA], inputB, transB)

gemmWithLayerB(tt, nd, cv, weightsLayer) ==
    gemmSqueezeA(tt, nd, cv, weightsLayer.net, weightsLayer.t, FALSE)

\* a constant B is transposed here if transB is set and multiplied as it is
gemmConstantB(tt, nd, cv, weights) ==
    gemmWithLayerB(tt, nd, cv,
                   addConstant(cv.net, weights.vals, weights.dtype, weights.dims))

gemmMatrixMultiplyOf(tt, nd, cv) ==
    IF nd.inputs[2].kind # "weights"
    THEN gemmSqueezeA(tt, nd, cv, cv.net, nd.inputs[2], AttrGet(nd, "transB", 0) # 0)
    ELSE IF AttrGet(nd, "transB", 0) = 0 THEN gemmConstantB(tt, nd, cv, nd.inputs[2])
    ELSE IF ~transposeWeights(nd.inputs[2], <<1, 0>>).ok
    THEN Fail("kUNSUPPORTED_NODE", cv.net, tt)
    ELSE gemmConstantB(tt, nd, cv, transposeWeights(nd.inputs[2], <<1, 0>>).result)

gemmMatrixMultiply(ctx, nd) == gemmMatrixMultiplyOf(ctx.tensors, nd, GemmConverted(ctx, nd))

importGemm(ctx, nd) ==
    IF canUseFC(nd) THEN gemmFullyConnected(ctx, nd) ELSE gemmMatrixMultiply(ctx, nd)

----------------------------------------------------------------------------
\* The nodes handed to the importers

Shapes(r) == [1..r -> 1..MaxExtent]

AllShapes == UNION { Shapes(r) : r \in 1..MaxRank }

DataTensor(d) == Tensor(InputId("x", 0), d, "FLOAT")

DataWeights(d) == Weights(d, "FLOAT", Zeros(Volume(d)))

DataValues ==
    { DataTensor(d) : d \in AllShapes } \cup { DataWeights(d) : d \in AllShapes }

IndexTensor(dtype) == Tensor(InputId("indices", 0), <<2>>, dtype)

IntWeights(v) == Weights(<<Len(v)>>, "INT64", v)

\* the end that means "to the end of the axis"
BigEnd == 2^30

\* Gather with an axis attribute
GatherNode(x, i, a) ==
    [op |-> "Gather", inputs |-> <<x, i>>, attrs |-> [axis |-> a],
     opset |-> 11, output |-> <<"y">>]

TRT_GatherNode(x, i, a) ==
    [op |-> "TRT_Gather", inputs |-> <<x, i>>, attrs |-> [axis |-> a],
     opset |-> 11, output |-> <<"y">>]

Axes == (-(MaxRank + 1))..(MaxRank + 1)

\* slices of one axis, and slices of the first two axes
SliceArgs1 ==
    { [starts |-> <<s>>, ends |-> <<e>>, axes |-> <<a>>, steps |-> <<p>>] :
        s \in (-1)..1, e \in ((-1)..MaxExtent) \cup {BigEnd},
        a \in (-1)..MaxRank, p \in (-1)..2 }

SliceArgs2 ==
    { [starts |-> <<p[1], q[1]>>, ends |-> <<p[2], q[2]>>, axes |-> ax,
       steps |-> <<1, 1>>] :
        p \in { <<0, BigEnd>>, <<0, 1>>, <<1, 0>> },
        q \in { <<0, BigEnd>>, <<0, 1>>, <<1, 0>> },
        ax \in { <<0, 1>>, <<1, 0>> } }

SliceArgs == SliceArgs1 \cup SliceArgs2

\* opset >= 10: starts, ends, axes and steps are inputs 1..4; k of the
\* inputs are given, and the axes may be left out in the middle
SliceNode10(x, a, k, axesGiven) ==
    [op |-> "Slice",
     inputs |-> SubSeq(<<x, IntWeights(a.starts), IntWeights(a.ends),
                         IF axesGiven THEN IntWeights(a.axes) ELSE NullValue,
                         IntWeights(a.steps)>>, 1, k),
     attrs |-> NoAttrs, opset |-> 10, output |-> <<"y">>]

\* opset < 10: starts, ends and axes are attributes
SliceNode9(x, a) ==
    [op |-> "Slice", inputs |-> <<x>>,
     attrs |-> [starts |-> a.starts, ends |-> a.ends, axes |-> a.axes],
     opset |-> 9, output |-> <<"y">>]

\* opset >= 10 with starts computed at run time
\* Slice of opset 10 whose starts is a tensor, and whose ends is a tensor or
\* weights
SliceNodeDynamic(x, ends) ==
    [op |-> "Slice",
     inputs |-> <<x, Tensor(InputId("starts", 0), <<1>>, "INT64"),
                  IF ends THEN Tensor(InputId("ends", 0), <<1>>, "INT64")
                  ELSE IntWeights(<<1>>)>>,
     attrs |-> NoAttrs, opset |-> 10, output |-> <<"y">>]

\* Add of two operands, with or without the broadcast attributes of
\* opset < 7; the left operand has the full extent on every axis
AddNode(inputs, attrs, opset) ==
    [op |-> "Add", inputs |-> inputs, attrs |-> attrs, opset |-> opset,
     output |-> <<"y">>]

\* the value v under a name of its own
Named(v, name) == IF v.kind = "tensor" THEN [v EXCEPT !.id.name = name] ELSE v

FullTensors == { DataTensor([i \in 1..r |-> MaxExtent]) : r \in 1..MaxRank }

BroadcastAttrs ==
    { [axis |-> a, broadcast |-> b] : a \in Axes, b \in {0, 1} }

\* a Div, Mul, Pow or Sub node of two operands
BinaryNode(op, inputs, attrs, opset) ==
    [op |-> op, inputs |-> inputs, attrs |-> attrs, opset |-> opset,
     output |-> <<"y">>]

IdentityNode(x) ==
    [op |-> "Identity", inputs |-> <<x>>, attrs |-> NoAttrs, opset |-> 11,
     output |-> <<"y">>]

\* AveragePool over 1, 2 or 3 spatial axes of extent PoolExtent with a
\* kernel of 2, and over a tensor without spatial axes
PoolExtent == MaxExtent + 2

PoolShapes ==
    { <<1, PoolExtent>>, <<1, 1, PoolExtent>>, <<1, 1, PoolExtent, PoolExtent>>,
      <<1, 1, PoolExtent, PoolExtent, PoolExtent>> }

Pads == 0..MaxPad

\* the pads attribute: begin pads of the first two spatial axes, then end pads
PoolPads(nbSpatial, b1, b2, e1, e2) ==
    CASE nbSpatial <= 1 -> <<b1, e1>>
      [] nbSpatial = 2 -> <<b1, b2, e1, e2>>
      [] OTHER -> <<b1, b2, 0, e1, e2, 0>>

PoolAttrs(nbSpatial, pads, variant) ==
    LET k == [i \in 1..Max(nbSpatial, 1) |-> 2]
    IN  CASE variant = "plain" -> [kernel_shape |-> k, pads |-> pads]
          [] variant = "strides" -> [kernel_shape |-> k, pads |-> pads, strides |-> k]
          [] variant = "ceil" -> [kernel_shape |-> k, pads |-> pads, ceil_mode |-> 1]
          [] OTHER -> [kernel_shape |-> k, pads |-> pads, dilations |-> <<2, 2>>]

AveragePoolNode(x, pads, variant, opset) ==
    [op |-> "AveragePool", inputs |-> <<x>>,
     attrs |-> PoolAttrs(Len(x.dims) - 2, pads, variant), opset |-> opset,
     output |-> <<"y">>]

\* ---- Loop nodes ----

\* trip counts of the loops: 0..MaxTrip
MaxTrip == 3

\* initial values of the first state variable: 0..MaxInit
MaxInit == 1

\* state variables of a loop: 0..MaxStateVars
MaxStateVars == 2

\* scan outputs of a loop body: 0..MaxScanOutputs
MaxScanOutputs == 2

StateInNames == <<"s1_in", "s2_in", "s3_in", "s4_in">>

StateOutNames == <<"s1_out", "s2_out", "s3_out", "s4_out">>

\* a body that adds one to each of its k state variables and echoes the
\* first updated state (or the constant, without states) in m scan outputs;
\* "cond" also passes the condition through, "stop" also computes a false
\* condition, "unknown" and "badaxis" end with a node that cannot be lowered
LoopBody(k, m, variant) ==
    LET inc == [i \in 1..k |->
                   [op |-> "Add", input |-> <<StateInNames[i], "one">>,
                    output |-> <<StateOutNames[i]>>, attrs |-> NoAttrs, opset |-> 11]]
        pass == [op |-> "Identity", input |-> <<"cond_in">>, output |-> <<"cond_out">>,
                 attrs |-> NoAttrs, opset |-> 11]
        stop == [op |-> "Identity", input |-> <<"zero">>, output |-> <<"cond_out">>,
                 attrs |-> NoAttrs, opset |-> 11]
        unknown == [op |-> "Unknown", input |-> <<"one">>, output |-> <<"u">>,
                    attrs |-> NoAttrs, opset |-> 11]
        badaxis == [op |-> "Gather", input |-> <<"x", "x">>, output |-> <<"g">>,
                    attrs |-> [axis |-> 5], opset |-> 11]
        echoed == IF k >= 1 THEN StateOutNames[1] ELSE "one"
    IN  [input |-> <<"iter", "cond_in">> \o SubSeq(StateInNames, 1, k),
         output |-> <<"cond_out">> \o SubSeq(StateOutNames, 1, k)
                    \o [j \in 1..m |-> echoed],
         node |-> CASE variant = "inc" -> inc
                    [] variant = "cond" -> <<pass>> \o inc
                    [] variant = "stop" -> <<stop>> \o inc
                    [] variant = "unknown" -> inc \o <<unknown>>
                    [] OTHER -> inc \o <<badaxis>>]

BodyVariants == {"inc", "cond", "stop", "unknown", "badaxis"}

ScalarWeights(v) == Weights(<<>>, "INT64", <<v>>)

TripValues ==
    { NullValue, Weights(<<1>>, "INT64", <<1>>), Weights(<<2>>, "INT64", <<1, 1>>),
      Tensor(InputId("trip", 2), <<>>, "INT64") }
    \cup { ScalarWeights(n) : n \in 0..MaxTrip }

CondValues == { NullValue, ScalarWeights(0), ScalarWeights(1) }

\* initial values s, s+1, ... as initializers, or states fed from outside
StateNames == <<"v1", "v2", "v3", "v4">>

StateValues(k, s, constant) ==
    [i \in 1..k |-> IF constant THEN ScalarWeights(s + i - 1)
                    ELSE Tensor(InputId(StateNames[i], s + i - 1), <<>>, "INT64")]

LoopOutputNames == <<"y1", "y2", "y3", "y4", "y5", "y6", "y7", "y8">>

LoopNode(trip, cond, states, body) ==
    [op |-> "Loop", inputs |-> <<trip, cond>> \o states, attrs |-> [body |-> body],
     opset |-> 11,
     output |-> SubSeq(LoopOutputNames, 1, Len(body.output) - 1)]

\* ---- Scan nodes ----

\* scan inputs of a Scan node: 1..MaxScanInputs
MaxScanInputs == 2

ScanInNames == <<"x1_in", "x2_in", "x3_in">>

SequenceNames == <<"seq1", "seq2", "seq3">>

\* sequences of two scalars
ScanInputs(m, constant) ==
    [i \in 1..m |-> IF constant THEN Weights(<<2>>, "INT64", <<i, i + 1>>)
                    ELSE Tensor(InputId(SequenceNames[i], 0), <<2>>, "INT64")]

\* a body over k state variables and m scan inputs with o scan outputs: "inc"
\* adds one to each state variable, "sum" adds the first scan input to it,
\* "unknown" ends with a node that cannot be lowered, "unbound" reads a name
\* that is no input of the body; the scan outputs echo the first scan input
ScanBody(k, m, o, variant) ==
    LET inc == [i \in 1..k |->
                   [op |-> "Add", input |-> <<StateInNames[i], "one">>,
                    output |-> <<StateOutNames[i]>>, attrs |-> NoAttrs, opset |-> 11]]
        sum == [i \in 1..k |->
                   [op |-> "Add", input |-> <<StateInNames[i], ScanInNames[1]>>,
                    output |-> <<StateOutNames[i]>>, attrs |-> NoAttrs, opset |-> 11]]
        echo == [op |-> "Identity", input |-> <<ScanInNames[1]>>, output |-> <<"echo">>,
                 attrs |-> NoAttrs, opset |-> 11]
        unknown == [op |-> "Unknown", input |-> <<"one">>, output |-> <<"u">>,
                    attrs |-> NoAttrs, opset |-> 11]
        unbound == [op |-> "Identity", input |-> <<"elsewhere">>, output |-> <<"u">>,
                    attrs |-> NoAttrs, opset |-> 11]
    IN  [input |-> SubSeq(StateInNames, 1, k) \o SubSeq(ScanInNames, 1, m),
         output |-> SubSeq(StateOutNames, 1, k) \o [j \in 1..o |-> "echo"],
         node |-> CASE variant = "inc" -> <<echo>> \o inc
                    [] variant = "sum" -> <<echo>> \o sum
                    [] variant = "unknown" -> <<echo>> \o inc \o <<unknown>>
                    [] OTHER -> <<echo>> \o inc \o <<unbound>>]

ScanBodyVariants == {"inc", "sum", "unknown", "unbound"}

\* no attribute but the number of scan inputs; or the scan inputs taken in
\* reverse and the scan outputs prepended; or scan inputs of shape [2, 1]
\* taken along axis 1 or 0, forwards or in reverse, in turns, and the scan
\* outputs prepended or appended in turns
ScanAttrVariants == {"defaults", "reverse", "mixed"}

ScanNode(states, sequences, body, variant) ==
    LET m == Len(sequences)
        o == Len(body.output) - Len(states)
    IN  [op |-> "Scan",
         inputs |-> IF variant = "mixed"
                    THEN states \o [i \in 1..m |-> [sequences[i] EXCEPT !.dims = <<2, 1>>]]
                    ELSE states \o sequences,
         attrs |-> CASE variant = "defaults" -> [body |-> body, num_scan_inputs |-> m]
                     [] variant = "reverse" ->
                        [body |-> body, num_scan_inputs |-> m,
                         scan_input_axes |-> Zeros(m),
                         scan_input_directions |-> Ones(m),
                         scan_output_axes |-> Zeros(o),
                         scan_output_directions |-> Ones(o)]
                     [] OTHER ->
                        [body |-> body, num_scan_inputs |-> m,
                         scan_input_axes |-> [i \in 1..m |-> i % 2],
                         scan_input_directions |-> [i \in 1..m |-> (i + 1) % 2],
                         scan_output_axes |-> Zeros(o),
                         scan_output_directions |-> [j \in 1..o |-> j % 2]],
         opset |-> 11, output |-> SubSeq(LoopOutputNames, 1, Len(body.output))]

\* what a read past the end of the body's outputs can yield: the end of
\* the process, or a name: one that is not bound, or one that is
Garbage == { "<abort>", "", "s1_out" }

\* ---- LSTM nodes ----

LSTMAttrs(h, direction, input_forget, variant) ==
    CASE variant = "plain" ->
            [hidden_size |-> h, direction |-> direction, input_forget |-> input_forget]
      [] variant = "clip" ->
            [hidden_size |-> h, direction |-> direction, input_forget |-> input_forget,
             clip |-> 1]
      [] variant = "activations" ->
            [hidden_size |-> h, direction |-> direction, input_forget |-> input_forget,
             activations |-> <<"Sigmoid", "Tanh", "Tanh", "Relu", "Tanh", "Tanh">>]
      [] OTHER -> [hidden_size |-> h, input_forget |-> input_forget]

AttrVariants == {"plain", "clip", "activations", "defaults"}

Directions == {"forward", "reverse", "bidirectional", "sideways"}

\* X is [seq_length, batch_size, input_size]
LSTMData(kind, name, dims, dtype) ==
    IF kind = "tensor" THEN Tensor(InputId(name, 0), dims, dtype)
    ELSE Weights(dims, dtype, Zeros(Volume(dims)))

\* an initial state of [num_directions, batch_size, hidden_size]
InitialState(kind, name, D, B, H) ==
    IF kind = "tensor" THEN Tensor(InputId(name, 0), <<D, B, H>>, "FLOAT")
    ELSE Weights(<<D, B, H>>, "FLOAT", [i \in 1..(D * B * H) |-> i])

\* X, W, R and then B, sequence_lens, initial_h, initial_c and P: none of
\* them, the bias only, all but P, or all
LSTMInputs(x, wr, optional, stateKind, D, H) ==
    LET w == LSTMData(wr, "W", <<D, 4 * H, 1>>, "FLOAT")
        r == LSTMData(wr, "R", <<D, 4 * H, H>>, "FLOAT")
        b == Weights(<<D, 8 * H>>, "FLOAT", Zeros(D * 8 * H))
        sl == Tensor(InputId("sequence_lens", 0), <<x.dims[2]>>, "INT32")
        h == InitialState(stateKind, "initial_h", D, x.dims[2], H)
        c == InitialState(stateKind, "initial_c", D, x.dims[2], H)
        p == Weights(<<D, 3 * H>>, "FLOAT", Zeros(D * 3 * H))
    IN  CASE optional = "none" -> <<x, w, r>>
          [] optional = "bias" -> <<x, w, r, b>>
          [] optional = "states" -> <<x, w, r, b, sl, h, c>>
          [] optional = "nobias" -> <<x, w, r, NullValue, NullValue, h, c>>
          [] OTHER -> <<x, w, r, b, sl, h, c, p>>

OptionalVariants == {"none", "bias", "states", "nobias", "peephole"}

LSTMInputNames == <<"X", "W", "R", "B", "sequence_lens", "initial_h", "initial_c", "P">>

NumDirections(direction) == IF direction = "bidirectional" THEN 2 ELSE 1

LSTMNode(x, wr, optional, stateKind, h, direction, input_forget, variant, nbOutputs) ==
    LET inputs == LSTMInputs(x, wr, optional, stateKind, NumDirections(direction), Max(h, 1))
    IN  [op |-> "LSTM", inputs |-> inputs,
         input |-> SubSeq(LSTMInputNames, 1, Len(inputs)),
         attrs |-> LSTMAttrs(h, direction, input_forget, variant), opset |-> 11,
         output |-> SubSeq(<<"Y", "Y_h", "Y_c", "Y_x">>, 1, nbOutputs)]

LSTMDataValues ==
    { LSTMData("tensor", "X", <<2, 2, 1>>, "FLOAT"),
      LSTMData("weights", "X", <<2, 2, 1>>, "FLOAT"),
      LSTMData("tensor", "X", <<2, 2>>, "FLOAT"),
      LSTMData("tensor", "X", <<2, 2, 1>>, "INT32") }

\* Transpose of a tensor or of weights of 1 to 4 dimensions, the weights
\* holding 1, 2, 3, ... in row-major order, with every permutation and with
\* no perm attribute
TransposeShapes == UNION { [1..r -> 1..MaxExtent] : r \in 1..4 }

PermsOf(r) ==
    { p \in [1..r -> 0..(r - 1)] : \A i, j \in 1..r : p[i] = p[j] => i = j }

CountingWeights(d) == Weights(d, "FLOAT", [i \in 1..Volume(d) |-> i])

TransposeNode(x, attrs) ==
    [op |-> "Transpose", inputs |-> <<x>>, attrs |-> attrs, opset |-> 11,
     output |-> <<"y">>]


\* ---- ConvTranspose nodes ----

\* requested output extents of a transposed convolution: 1..MaxOutput
MaxOutput == 5

\* the input [1, 1, h, 1, ...] and the kernel [1, 1, k, 1, ...]
DeconvInput(rank, h) == DataTensor([i \in 1..rank |-> IF i = 3 THEN h ELSE 1])

DeconvKernel(rank, k) ==
    Weights([i \in 1..rank |-> IF i = 3 THEN k ELSE 1], "FLOAT",
            [i \in 1..k |-> 1])

\* the attribute a over the first spatial axis with value v, the further
\* axes with value rest
OnFirstAxis(a, nbSpatial, v, rest) ==
    a :> [i \in 1..nbSpatial |-> IF i = 1 THEN v ELSE rest]

\* pads, auto_pad or neither
DeconvPadding(nbSpatial) ==
    { NoAttrs }
        \cup { "auto_pad" :> m : m \in {"SAME_UPPER", "SAME_LOWER", "VALID"} }
        \cup { "pads" :> [i \in 1..(2 * nbSpatial) |->
                            IF i = 1 THEN b ELSE IF i = nbSpatial + 1 THEN e ELSE 0] :
                 b \in 0..1, e \in 0..1 }

DeconvExtras(nbSpatial) ==
    { NoAttrs, OnFirstAxis("dilations", nbSpatial, 2, 1),
      OnFirstAxis("dilations", nbSpatial, 1, 2),
      OnFirstAxis("kernel_shape", nbSpatial, 3, 1),
      OnFirstAxis("output_padding", nbSpatial, 1, 0),
      OnFirstAxis("output_padding", nbSpatial, 0, 1), "group" :> 1 }

DeconvAttrs(nbSpatial) ==
    { OnFirstAxis("strides", nbSpatial, s, 1) @@ pd @@ o @@ x :
        s \in 1..2, pd \in DeconvPadding(nbSpatial),
        o \in { NoAttrs } \cup
                 { OnFirstAxis("output_shape", nbSpatial, v, 1) : v \in 1..MaxOutput },
        x \in DeconvExtras(nbSpatial) }

ConvTransposeNode(inputs, attrs) ==
    [op |-> "ConvTranspose", inputs |-> inputs, attrs |-> attrs, opset |-> 11,
     output |-> <<"y">>]

\* the kernel, alone or with a bias, and the inputs the importer rejects
DeconvFurtherInputs(rank, k) ==
    { <<DeconvKernel(rank, k)>>,
      <<Named(DeconvInput(rank, k), "W")>>,
      <<DeconvKernel(rank + 1, k)>>,
      <<DeconvKernel(rank, k), IntWeights(<<0>>)>>,
      <<DeconvKernel(rank, k), IntWeights(<<0, 0>>)>>,
      <<DeconvKernel(rank, k), DataWeights(<<1, 1>>)>>,
      <<DeconvKernel(rank, k), Named(DataTensor(<<1>>), "B")>> }

\* ---- SpaceToDepth and DepthToSpace nodes ----

\* block sizes: 1..MaxBlock
MaxBlock == 2

\* extents of the axes of the rearranged inputs
BlockExtents == {1, 2, 4, 8}

BlockSizes == 1..MaxBlock

BlockShapes ==
    { <<n, c, h, w>> : n \in {1, 2}, c \in BlockExtents, h \in {1, 2, 4}, w \in {2, 4} }
        \cup { <<2, 4, 4>>, <<8>>, <<1, 4, 2, 2, 2>> }

\* producer is the node whose output the node consumes, when there is one
BlockNode(op, x, b, producer) ==
    [op |-> op, inputs |-> <<x>>, attrs |-> [blocksize |-> b], opset |-> 11,
     output |-> <<"y">>, producer |-> producer]

\* ---- GRU nodes ----

GRUAttrs(h, direction, linear_before_reset, variant) ==
    CASE variant = "plain" ->
            [hidden_size |-> h, direction |-> direction,
             linear_before_reset |-> linear_before_reset]
      [] variant = "clip" ->
            [hidden_size |-> h, direction |-> direction,
             linear_before_reset |-> linear_before_reset, clip |-> 1]
      [] variant = "activations" ->
            [hidden_size |-> h, direction |-> direction,
             linear_before_reset |-> linear_before_reset,
             activations |-> <<"Sigmoid", "Tanh", "Sigmoid", "Relu">>]
      [] OTHER -> [hidden_size |-> h]

\* X, W, R and then B, sequence_lens and initial_h: none of them, the bias
\* only, or all
GRUInputs(x, wr, optional, stateKind, D, H) ==
    LET w == LSTMData(wr, "W", <<D, NUM_GATES * H, 1>>, "FLOAT")
        r == LSTMData(wr, "R", <<D, NUM_GATES * H, H>>, "FLOAT")
        b == Weights(<<D, 2 * NUM_GATES * H>>, "FLOAT", Zeros(D * 2 * NUM_GATES * H))
        sl == Tensor(InputId("sequence_lens", 0), <<x.dims[2]>>, "INT32")
        h == InitialState(stateKind, "initial_h", D, x.dims[2], H)
    IN  CASE optional = "none" -> <<x, w, r>>
          [] optional = "bias" -> <<x, w, r, b>>
          [] optional = "nobias" -> <<x, w, r, NullValue, NullValue, h>>
          [] OTHER -> <<x, w, r, b, sl, h>>

GRUOptionalVariants == {"none", "bias", "nobias", "states"}

GRUNode(x, wr, optional, stateKind, h, direction, linear_before_reset, variant) ==
    LET inputs == GRUInputs(x, wr, optional, stateKind, NumDirections(direction), h)
    IN  [op |-> "GRU", inputs |-> inputs,
         input |-> SubSeq(LSTMInputNames, 1, Len(inputs)),
         attrs |-> GRUAttrs(h, direction, linear_before_reset, variant), opset |-> 11,
         output |-> <<"Y", "Y_h">>]

\* ---- LogSoftmax and reduction nodes ----

SoftmaxAttrs == { NoAttrs } \cup { [axis |-> a] : a \in -1..MaxRank }

ReduceAttrs ==
    { NoAttrs, [keepdims |-> 0] }
    \cup { [axes |-> a] : a \in {<<0>>, <<-1>>, <<MaxRank>>, <<0, 1>>, <<0, MaxRank>>} }
    \cup { [axes |-> <<0>>, keepdims |-> 0] }

ReduceNode(op, x, attrs) ==
    [op |-> op, inputs |-> <<x>>, attrs |-> attrs, opset |-> 11, output |-> <<"y">>]


\* ---- Unsqueeze nodes ----

UnsqueezeNode(x, axes) ==
    [op |-> "Unsqueeze", inputs |-> <<x>>, attrs |-> [axes |-> axes], opset |-> 11,
     output |-> <<"y">>]

\* axes in the range of the output, repeated, negative, past the end of the
\* output, and more than a tensor has room for
UnsqueezeAxes ==
    { <<0>>, <<1>>, <<0, 2>>, <<1, 2>>, <<1, 1>>, <<-1>>, <<3>>, <<4>>, <<0, 5>>,
      <<0, 1, 2, 3, 4, 5, 6>> }


\* ---- Gemm nodes ----

GemmNode(a, b, c, attrs, opset) ==
    [op |-> "Gemm", inputs |-> <<a, b, c>>, attrs |-> attrs, opset |-> opset,
     output |-> <<"y">>]

\* A: tensors of two and of three dimensions
GemmA == { Tensor(InputId("A", 0), d, "FLOAT") : d \in Shapes(2) \cup Shapes(3) }

\* B: constants of two dimensions, of one dimension, and a tensor
GemmB ==
    { CountingWeights(d) : d \in Shapes(2) }
        \cup { CountingWeights(<<2>>), Tensor(InputId("B", 0), <<2, 2>>, "FLOAT") }

\* C: constants of one and of two values, and a tensor
GemmC ==
    { Weights(<<1>>, "FLOAT", <<7>>), Weights(<<2>>, "FLOAT", <<7, 9>>),
      Tensor(InputId("C", 0), <<1, 2>>, "FLOAT") }

GemmScales == { <<1, 1>>, <<2, 1>>, <<1, 2>> }

----------------------------------------------------------------------------
\* The backend runs the loop that a Loop node was lowered to.  Tensors are
\* scalars; a recurrence holds its initial value in the first iteration
\* and afterwards the value its update had in the iteration before.

LoopLayers(n, loop, type) ==
    { i \in 1..Len(n) : n[i].type = type /\ n[i].loop = loop }

\* the value of a tensor within an iteration, given the recurrences' values
RECURSIVE Eval(_, _, _)
Eval(n, id, rec) ==
    IF id.layer = 0 THEN id.val
    ELSE LET L == n[id.layer]
         IN  CASE L.type = "constant" -> L.vals[1]
               [] L.type = "recurrence" -> rec[id.layer]
               [] L.type = "elementwise" -> Eval(n, L.ins[1], rec) + Eval(n, L.ins[2], rec)
               [] OTHER -> Eval(n, L.ins[1], rec)

\* the tensor is computed by sums, reshapes and copies from scalar
\* constants, inputs and recurrences
RECURSIVE Evaluable(_, _)
Evaluable(n, id) ==
    IF id.layer = 0 THEN TRUE
    ELSE LET L == n[id.layer]
         IN  CASE L.type = "constant" -> Len(L.vals) = 1
               [] L.type = "recurrence" -> TRUE
               [] L.type = "elementwise" ->
                      /\ L.operation = "kSUM"
                      /\ Evaluable(n, L.ins[1])
                      /\ Evaluable(n, L.ins[2])
               [] L.type \in {"identity", "shuffle"} -> Evaluable(n, L.ins[1])
               [] OTHER -> FALSE

\* the loop can be run: it has a trip limit, every recurrence has its
\* update, and everything it reads can be evaluated
Runnable(n, loop) ==
    /\ LoopLayers(n, loop, "trip_limit") # {}
    /\ \A i \in LoopLayers(n, loop, "trip_limit") : Evaluable(n, n[i].ins[1])
    /\ \A i \in LoopLayers(n, loop, "recurrence") :
        /\ Len(n[i].ins) = 2
        /\ Evaluable(n, n[i].ins[1])
        /\ Evaluable(n, n[i].ins[2])
    /\ \A i \in LoopLayers(n, loop, "loop_output") : Evaluable(n, n[i].ins[1])

\* no trip limit has fired: fewer iterations than every count, and every
\* condition is non-zero
Continues(n, loop, r) ==
    \A i \in LoopLayers(n, loop, "trip_limit") :
        IF n[i].kind = "kCOUNT"
        THEN r.iter < Eval(n, n[i].ins[1], r.rec)
        ELSE Eval(n, n[i].ins[1], r.rec) # 0

\* the value of a loop output once the loop has ended
LoopOutputValue(n, o, r) ==
    IF n[o].kind = "kLAST_VALUE"
    THEN <<Eval(n, n[o].ins[1], r.rec)>>
    ELSE r.scan[o]

\* no value of the updated condition
NoCondition == -1

\* the value of the body's first output, the updated condition, in an
\* iteration: NoCondition when the body binds no value it can be computed
\* from
BodyCondition(n, tt, body, rec) ==
    LET name == body.output[1]
    IN  IF name \notin DOMAIN tt THEN NoCondition
        ELSE IF tt[name].kind = "weights" THEN tt[name].vals[1]
        ELSE IF Evaluable(n, tt[name].id) THEN Eval(n, tt[name].id, rec)
        ELSE NoCondition

----------------------------------------------------------------------------
\* The dispatcher hands one node to its importer

\* the context before the node: an empty network or one that holds a layer,
\* and the initializers and inputs of the graph by name
InitialNets ==
    { <<>>,
      <<[type |-> "identity", ins |-> <<InputId("x", 0)>>, dims |-> <<1>>,
         dtype |-> "FLOAT"]>> }

InitialTensors ==
    ("x" :> DataTensor(<<1>>)) @@ ("one" :> ScalarWeights(1))
        @@ ("zero" :> ScalarWeights(0))

Init ==
    /\ mErrorStack = <<>>
    /\ mStackLock = 0
    /\ mUserRecorder = FALSE
    /\ mLogger = TRUE
    /\ pc = [t \in Threads |-> "idle"]
    /\ call = [t \in Threads |-> NoCall]
    /\ pushPos = [t \in Threads |-> 0]
    /\ ret = [t \in Threads |-> "none"]
    /\ userLog = <<>>
    /\ loggerLog = <<>>
    /\ chk = [t \in Threads |-> FALSE]
    /\ lockOrder = <<>>
    /\ appended = {}
    /\ seen = [t \in Threads |-> <<>>]
    /\ phase = "idle"
    /\ node = <<>>
    /\ net \in InitialNets
    /\ tensors = InitialTensors
    /\ result = <<>>
    /\ pre = <<>>
    /\ run = <<>>
    /\ RegistryAfterStartup
    /\ Created

ctx == [net |-> net, tensors |-> tensors]

\* the importer of the node runs to its return
Lower(nd, r) ==
    /\ node' = nd
    /\ pre' = [net |-> net, tensors |-> tensors]
    /\ net' = r.net
    /\ tensors' = r.tensors
    /\ result' = [status |-> r.status, outputs |-> r.outputs]
    /\ phase' = "lowered"
    /\ UNCHANGED run
    /\ UNCHANGED <<recVars, regVars, refVars>>

\* the same for an importer that writes to the buffers of its inputs: what
\* the buffers hold at its return is kept
LowerWriting(nd, r) ==
    /\ node' = nd
    /\ pre' = [net |-> net, tensors |-> tensors]
    /\ net' = r.net
    /\ tensors' = r.tensors
    /\ result' = [status |-> r.status, outputs |-> r.outputs, inputs |-> r.inputs]
    /\ phase' = "lowered"
    /\ UNCHANGED run
    /\ UNCHANGED <<recVars, regVars, refVars>>

\* the same, keeping the status of each helper the importer called
LowerNested(nd, r, helpers) ==
    /\ node' = nd
    /\ pre' = [net |-> net, tensors |-> tensors]
    /\ net' = r.net
    /\ tensors' = r.tensors
    /\ result' = [status |-> r.status, outputs |-> r.outputs, helpers |-> helpers]
    /\ phase' = "lowered"
    /\ UNCHANGED run
    /\ UNCHANGED <<recVars, regVars, refVars>>

\* the same, keeping what the loop of the importer read and wrote
LowerLooping(nd, r, loop) ==
    /\ node' = nd
    /\ pre' = [net |-> net, tensors |-> tensors]
    /\ net' = r.net
    /\ tensors' = r.tensors
    /\ result' = [status |-> r.status, outputs |-> r.outputs, loop |-> loop]
    /\ phase' = "lowered"
    /\ UNCHANGED run
    /\ UNCHANGED <<recVars, regVars, refVars>>

LowerUnsqueeze ==
    /\ phase = "idle"
    /\ \E x \in DataValues, axes \in UnsqueezeAxes, staleIn \in Indeterminate,
          staleOut \in Indeterminate :
        LowerLooping(UnsqueezeNode(x, axes),
                     importUnsqueeze(ctx, UnsqueezeNode(x, axes), staleIn, staleOut),
                     UnsqueezePlacement(UnsqueezeNode(x, axes), staleIn, staleOut))

LowerGemm ==
    /\ phase = "idle"
    /\ \E a \in GemmA, b \in GemmB, c \in GemmC :
        \/ \E tA \in {0, 1}, tB \in {0, 1}, s \in GemmScales :
            LET attrs == [transA |-> tA, transB |-> tB, alpha |-> s[1], beta |-> s[2]]
            IN  Lower(GemmNode(a, b, c, attrs, 11), importGemm(ctx, GemmNode(a, b, c, attrs, 11)))
        \/ Lower(GemmNode(a, b, c, NoAttrs, 11), importGemm(ctx, GemmNode(a, b, c, NoAttrs, 11)))
        \/ \E bc \in {0, 1} :
            /\ Len(a.dims) = 2
            /\ Lower(GemmNode(a, b, c, [broadcast |-> bc], 6),
                     importGemm(ctx, GemmNode(a, b, c, [broadcast |-> bc], 6)))

LowerGather ==
    /\ phase = "idle"
    /\ \E x \in DataValues, a \in Axes :
        \E i \in { IndexTensor("INT32"), IntWeights(<<0, 1>>) } :
            Lower(GatherNode(x, i, a), importGather(ctx, GatherNode(x, i, a)))

LowerTRT_Gather ==
    /\ phase = "idle"
    /\ \E x \in DataValues \cup { DataTensor(<<>>) }, a \in Axes :
        \E i \in { IndexTensor("INT32"), IndexTensor("FLOAT"), IntWeights(<<0, 1>>) } :
            Lower(TRT_GatherNode(x, i, a), importTRT_Gather(ctx, TRT_GatherNode(x, i, a)))

\* a slice of more axes than the data has is left out
LowerSlice ==
    /\ phase = "idle"
    /\ \E x \in DataValues :
        \/ \E a \in SliceArgs, k \in {2, 3, 5}, g \in BOOLEAN :
            /\ Len(a.axes) <= Len(x.dims)
            /\ LowerNested(SliceNode10(x, a, k, g), importSlice(ctx, SliceNode10(x, a, k, g)),
                           SliceConversions(SliceNode10(x, a, k, g)))
        \/ \E a \in SliceArgs :
            /\ Len(a.axes) <= Len(x.dims)
            /\ LowerNested(SliceNode9(x, a), importSlice(ctx, SliceNode9(x, a)),
                           SliceConversions(SliceNode9(x, a)))
        \/ \E ends \in BOOLEAN :
            LowerNested(SliceNodeDynamic(x, ends), importSlice(ctx, SliceNodeDynamic(x, ends)),
                        SliceConversions(SliceNodeDynamic(x, ends)))

LowerAdd ==
    /\ phase = "idle"
    /\ \E x \in FullTensors, y \in { Named(v, "b") : v \in DataValues } :
        \/ \E a \in BroadcastAttrs, o \in {6, 7} :
                Lower(AddNode(<<x, y>>, a, o), importAdd(ctx, AddNode(<<x, y>>, a, o)))
        \/ \E o \in {6, 7} :
                Lower(AddNode(<<x, y>>, NoAttrs, o),
                      importAdd(ctx, AddNode(<<x, y>>, NoAttrs, o)))
        \/ \E o \in {6, 7}, inputs \in { <<>>, <<y>>, <<x, y, x>> } :
                Lower(AddNode(inputs, NoAttrs, o),
                      importAdd(ctx, AddNode(inputs, NoAttrs, o)))

\* the importer registered for a binary operator other than Add
ImportBinary(op, c, nd) ==
    CASE op = "Div" -> importDiv(c, nd)
      [] op = "Mul" -> importMul(c, nd)
      [] op = "Pow" -> importPow(c, nd)
      [] OTHER -> importSub(c, nd)

LowerBinary ==
    /\ phase = "idle"
    /\ \E op \in {"Div", "Mul", "Pow", "Sub"}, x \in FullTensors,
          y \in { Named(v, "b") : v \in DataValues }, o \in {6, 7} :
        \E a \in { NoAttrs, [broadcast |-> 0], [broadcast |-> 1],
                    [axis |-> 0, broadcast |-> 0], [axis |-> 0, broadcast |-> 1] } :
            Lower(BinaryNode(op, <<x, y>>, a, o),
                  ImportBinary(op, ctx, BinaryNode(op, <<x, y>>, a, o)))

LowerTranspose ==
    /\ phase = "idle"
    /\ \E d \in TransposeShapes, constant \in BOOLEAN :
        LET x == IF constant THEN CountingWeights(d) ELSE DataTensor(d)
        IN  \/ \E p \in PermsOf(Len(d)) :
                    Lower(TransposeNode(x, [perm |-> p]),
                          importTranspose(ctx, TransposeNode(x, [perm |-> p])))
            \/ Lower(TransposeNode(x, NoAttrs),
                     importTranspose(ctx, TransposeNode(x, NoAttrs)))

LowerIdentity ==
    /\ phase = "idle"
    /\ \E x \in DataValues : Lower(IdentityNode(x), importIdentity(ctx, IdentityNode(x)))

LowerAveragePool ==
    /\ phase = "idle"
    /\ \E d \in PoolShapes, constant \in BOOLEAN, b1 \in Pads, b2 \in Pads,
          e1 \in Pads, e2 \in Pads :
        \E v \in {"plain", "strides", "ceil", "dilations"}, o \in {9, 10} :
            LET x == IF constant THEN DataWeights(d) ELSE DataTensor(d)
                nd == AveragePoolNode(x, PoolPads(Len(d) - 2, b1, b2, e1, e2), v, o)
                \* three spatial axes, the pads of the third one differing
                x3 == DataTensor(<<1, 1, PoolExtent, PoolExtent, PoolExtent>>)
                nd3 == AveragePoolNode(x3, <<b1, b1, b2, b1, b1, e2>>, v, o)
            IN  \/ Lower(nd, importAveragePool(ctx, nd))
                \/ /\ Len(d) = 5 /\ ~constant /\ e1 = 0
                   /\ Lower(nd3, importAveragePool(ctx, nd3))

LowerConvTranspose ==
    /\ phase = "idle"
    /\ \E rank \in 2..5, h \in 1..MaxExtent, k \in 1..2 :
        \E a \in DeconvAttrs(Max(rank - 2, 2)) :
            \E rest \in IF DOMAIN a \subseteq {"strides", "output_shape"}
                         THEN DeconvFurtherInputs(rank, k)
                         ELSE { <<DeconvKernel(rank, k)>> } :
                LET nd == ConvTransposeNode(<<DeconvInput(rank, h)>> \o rest, a)
                IN  Lower(nd, importConvTranspose(ctx, nd))

LowerSpaceToDepth ==
    /\ phase = "idle"
    /\ \E d \in BlockShapes, b \in BlockSizes, constant \in BOOLEAN :
        LET x == IF constant THEN DataWeights(d) ELSE DataTensor(d)
            nd == BlockNode("SpaceToDepth", x, b, <<>>)
        IN  Lower(nd, importSpaceToDepth(ctx, nd))

\* a DepthToSpace node over an input of the graph, or over the output of the
\* SpaceToDepth node that was lowered before it, with its block size
LowerDepthToSpace ==
    IF phase = "idle"
    THEN \E d \in BlockShapes, b \in BlockSizes, constant \in BOOLEAN :
            LET x == IF constant THEN DataWeights(d) ELSE DataTensor(d)
                nd == BlockNode("DepthToSpace", x, b, <<>>)
            IN  Lower(nd, importDepthToSpace(ctx, nd))
    ELSE /\ node.op = "SpaceToDepth"
         /\ result.status = kSUCCESS
         /\ LET nd == BlockNode("DepthToSpace", result.outputs[1],
                                node.attrs.blocksize, node)
            IN  Lower(nd, importDepthToSpace(ctx, nd))

\* importLoop runs to its return, or to the end of the process
LowerLoopNode(nd, r) ==
    /\ node' = nd
    /\ pre' = [net |-> net, tensors |-> tensors]
    /\ net' = r.net
    /\ tensors' = r.tensors
    /\ result' = [status |-> r.status, outputs |-> r.outputs, read |-> r.read,
                  atBody |-> r.atBody, helpers |-> r.helpers]
    /\ phase' = "lowered"
    /\ UNCHANGED run
    /\ UNCHANGED <<recVars, regVars, refVars>>

LowerLoop ==
    /\ phase = "idle"
    /\ \E trip \in TripValues, cond \in CondValues, k \in 0..MaxStateVars,
          m \in 0..MaxScanOutputs, s \in 0..MaxInit :
        \E constant \in BOOLEAN, v \in BodyVariants, garbage \in Garbage :
            LET nd == LoopNode(trip, cond, StateValues(k, s, constant), LoopBody(k, m, v))
            IN  LowerLoopNode(nd, importLoop(ctx, nd, garbage))

LowerScan ==
    /\ phase = "idle"
    /\ \E k \in 0..MaxStateVars, m \in 1..MaxScanInputs, o \in 0..MaxScanOutputs,
          s \in 0..MaxInit :
        \E constant \in BOOLEAN, v \in ScanBodyVariants, a \in ScanAttrVariants :
            LET nd == ScanNode(StateValues(k, s, constant), ScanInputs(m, constant),
                               ScanBody(k, m, o, v), a)
            IN  LowerLoopNode(nd, importScan(ctx, nd))

LowerLSTM ==
    /\ phase = "idle"
    /\ \E x \in LSTMDataValues, wr \in {"tensor", "weights"}, opt \in OptionalVariants,
          d \in Directions, f \in {0, 1}, v \in AttrVariants :
        \E sk \in {"tensor", "weights"}, fFirst \in BOOLEAN :
            LET nd == LSTMNode(x, wr, opt, sk, MaxHidden, d, f, v, 3)
            IN  Lower(nd, importLSTM(ctx, nd, fFirst))

LowerGRU ==
    /\ phase = "idle"
    /\ \E wr \in {"tensor", "weights"}, opt \in GRUOptionalVariants, d \in Directions,
          l \in {0, 1}, v \in AttrVariants :
        \E sk \in {"tensor", "weights"}, zPos \in 0..3 :
            LET nd == GRUNode(LSTMData(wr, "X", <<2, 2, 1>>, "FLOAT"), wr, opt, sk,
                              MaxHidden, d, l, v)
            IN  Lower(nd, importGRU(ctx, nd, zPos))

LowerLogSoftmax ==
    /\ phase = "idle"
    /\ \E x \in DataValues, a \in SoftmaxAttrs, made \in BOOLEAN :
        LET nd == ReduceNode("LogSoftmax", x, a)
            r == importLogSoftmax(ctx, nd, made)
        IN  LowerNested(nd, r, r.helpers)

LowerReduceLogSum ==
    /\ phase = "idle"
    /\ \E x \in DataValues, a \in ReduceAttrs, made \in BOOLEAN :
        LET nd == ReduceNode("ReduceLogSum", x, a)
            r == importReduceLogSum(ctx, nd, made)
        IN  LowerNested(nd, r, r.helpers)

LowerReduceLogSumExp ==
    /\ phase = "idle"
    /\ \E x \in DataValues, a \in ReduceAttrs, madeExp, made \in BOOLEAN :
        LET nd == ReduceNode("ReduceLogSumExp", x, a)
            r == importReduceLogSumExp(ctx, nd, madeExp, made)
        IN  LowerNested(nd, r, r.helpers)

LowerReduceL2 ==
    /\ phase = "idle"
    /\ \E d \in AllShapes, a \in ReduceAttrs, made \in BOOLEAN :
        LET nd == ReduceNode("ReduceL2", DataTensor(d), a)
            r == importReduceL2(ctx, nd, made)
        IN  LowerNested(nd, r, r.helpers)

LowerLSTMLegacy ==
    /\ phase = "idle"
    /\ \E x \in LSTMDataValues, wr \in {"tensor", "weights"}, opt \in OptionalVariants,
          d \in Directions, f \in {0, 1}, v \in AttrVariants :
        \E sk \in {"tensor", "weights"}, h \in {0, MaxHidden}, nbOutputs \in {1, 4} :
            LET nd == LSTMNode(x, wr, opt, sk, h, d, f, v, nbOutputs)
            IN  LowerWriting(nd, lstmLegacyImporter(ctx, nd))

\* the loop of the lowered Loop node: the entry after those that were there
LoweredLoop == Len(pre.net) + 1

\* the backend starts the loop of a Loop node that was lowered
LoopStart ==
    /\ phase = "lowered"
    /\ node.op = "Loop"
    /\ result.status = kSUCCESS
    /\ Runnable(net, LoweredLoop)
    /\ run' = [iter |-> 0,
               cond |-> NoCondition,
               rec |-> [i \in LoopLayers(net, LoweredLoop, "recurrence") |->
                           Eval(net, net[i].ins[1], <<>>)],
               scan |-> [o \in LoopLayers(net, LoweredLoop, "loop_output") |-> <<>>]]
    /\ phase' = "running"
    /\ UNCHANGED <<node, net, tensors, result, pre>>
    /\ UNCHANGED <<recVars, regVars, refVars>>

\* one iteration: the scan outputs take the values of their tensors, the
\* recurrences take the values of their updates; the value the body computed
\* for its condition output is kept
LoopIterate ==
    /\ phase = "running"
    /\ run.iter <= MaxTrip
    /\ Continues(net, LoweredLoop, run)
    /\ run' = [iter |-> run.iter + 1,
               cond |-> BodyCondition(net, tensors, node.attrs.body, run.rec),
               rec |-> [i \in DOMAIN run.rec |-> Eval(net, net[i].ins[2], run.rec)],
               scan |-> [o \in DOMAIN run.scan |->
                            IF net[o].kind = "kCONCATENATE"
                            THEN Append(run.scan[o], Eval(net, net[o].ins[1], run.rec))
                            ELSE run.scan[o]]]
    /\ UNCHANGED <<phase, node, net, tensors, result, pre>>
    /\ UNCHANGED <<recVars, regVars, refVars>>

\* a trip limit has fired: the loop outputs have their values
LoopFinish ==
    /\ phase = "running"
    /\ ~Continues(net, LoweredLoop, run)
    /\ phase' = "finished"
    /\ UNCHANGED <<node, net, tensors, result, pre, run>>
    /\ UNCHANGED <<recVars, regVars, refVars>>

Next ==
    \/ LowerGather
    \/ LowerTRT_Gather
    \/ LowerSlice
    \/ LowerAdd
    \/ LowerBinary
    \/ LowerTranspose
    \/ LowerIdentity
    \/ LowerAveragePool
    \/ LowerConvTranspose
    \/ LowerSpaceToDepth
    \/ LowerDepthToSpace
    \/ LowerLoop
    \/ LowerScan
    \/ LowerLSTM
    \/ LowerGRU
    \/ LowerLogSoftmax
    \/ LowerReduceLogSum
    \/ LowerReduceLogSumExp
    \/ LowerReduceL2
    \/ LowerLSTMLegacy
    \/ LowerUnsqueeze
    \/ LowerGemm
    \/ LoopStart
    \/ LoopIterate
    \/ LoopFinish

Spec == Init /\ [][Next]_vars

----------------------------------------------------------------------------
\* The table of operator importers, filled by the static initializers

\* operator names and routines of the registrations
OpNames == {"Add", "Loop", "Slice"}

Importers == {"importFirst", "importSecond"}

RegInit ==
    /\ mErrorStack = <<>>
    /\ mStackLock = 0
    /\ mUserRecorder = FALSE
    /\ mLogger = TRUE
    /\ pc = [t \in Threads |-> "idle"]
    /\ call = [t \in Threads |-> NoCall]
    /\ pushPos = [t \in Threads |-> 0]
    /\ ret = [t \in Threads |-> "none"]
    /\ userLog = <<>>
    /\ loggerLog = <<>>
    /\ chk = [t \in Threads |-> FALSE]
    /\ lockOrder = <<>>
    /\ appended = {}
    /\ seen = [t \in Threads |-> <<>>]
    /\ phase = "idle"
    /\ node = <<>>
    /\ net = <<>>
    /\ tensors = <<>>
    /\ result = <<>>
    /\ pre = <<>>
    /\ run = <<>>
    /\ builtin_op_importers = {}
    /\ NDEBUG \in BOOLEAN
    /\ aborted = FALSE
    /\ registering = <<>>
    /\ Created

\* the keys of the table
RegisteredOps == { e[1] : e \in builtin_op_importers }

\* std::unordered_map::insert: the entry is added unless the key is present
Insert(map, op, importer) ==
    IF \E e \in map : e[1] = op THEN map ELSE map \cup { <<op, importer>> }

\* registerBuiltinOpImporter: the insertion, then assert(inserted), which
\* ends the process unless the build compiles it away
registerBuiltinOpImporter(op, importer) ==
    LET inserted == op \notin RegisteredOps
    IN  /\ ~aborted
        /\ builtin_op_importers' = Insert(builtin_op_importers, op, importer)
        /\ registering' = [op |-> op, importer |-> importer, inserted |-> inserted]
        /\ aborted' = (~inserted /\ ~NDEBUG)
        /\ UNCHANGED NDEBUG
        /\ UNCHANGED <<recVars, lowVars, refVars>>

RegNext == \E op \in OpNames, importer \in Importers : registerBuiltinOpImporter(op, importer)

SpecReg == RegInit /\ [][RegNext]_vars

----------------------------------------------------------------------------
\* Properties of the error recorder

AllDone == \A t \in Threads : pc[t] = "done"

Reporters == { t \in Threads : call[t].op = "reportError" }

PairOf(t) == <<call[t].val, call[t].desc>>

\* how often pair r occurs in sequence q
Occurrences(q, r) == Cardinality({ i \in DOMAIN q : q[i] = r })

\* the position in lockOrder of the last clear() that has returned, or 0
LastClearPos ==
    LET done == { i \in DOMAIN lockOrder :
                     /\ call[lockOrder[i]].op = "clear"
                     /\ pc[lockOrder[i]] = "done" }
    IN  IF done = {} THEN 0 ELSE CHOOSE i \in done : \A j \in done : j <= i

\* the pairs of the threads that took the lock after the last clear and whose
\* push_back completed, in the order they took the lock
ExpectedStack ==
    LET after == SubSeq(lockOrder, LastClearPos + 1, Len(lockOrder))
        kept  == SelectSeq(after, LAMBDA t : t \in appended)
    IN  [i \in DOMAIN kept |-> PairOf(kept[i])]

C8_AccessorBoundsChecked ==
    /\ \A t \in Threads :
          (pc[t] = "done" /\ call[t].op \in {"getErrorCode", "getErrorDesc"}) =>
             LET i == call[t].idx
                 n == Len(seen[t])
                 field == IF call[t].op = "getErrorCode" THEN 1 ELSE 2
             IN  /\ (i < 0 \/ i >= n) =>
                        ret[t] = (IF field = 1 THEN kINVALID_ARGUMENT
                                  ELSE OutOfRangeDesc)
                 /\ (0 <= i /\ i < n) => ret[t] = seen[t][i + 1][field]
    /\ \A t \in Threads : pc[t] = "read" => mErrorStack = seen[t]
    /\ (\A t \in Threads : pc[t] \in {"idle", "read", "done"})
           => mErrorStack = ExpectedStack

C8_Witness ==
    /\ AllDone
    /\ Len(mErrorStack) = 1
    /\ \E t, u \in Threads :
          /\ call[t].op = "getErrorCode" /\ call[t].idx = -1
          /\ ret[t] = kINVALID_ARGUMENT
          /\ Len(seen[t]) = 1
          /\ call[u].op = "getErrorDesc" /\ call[u].idx = 0
          /\ ret[u] = mErrorStack[1][2]

\* the threads whose pair was handed on after its push_back completed
Delivered == { t \in appended : pc[t] # "forward" }

\* C9 as stated: every reportError returns true, a stored pair is the last
\* entry of the list, and every stored pair reaches exactly one sink: the
\* user recorder if there is one, otherwise the logger.
C9_ExactlyOneSink ==
    /\ \A t \in Reporters : pc[t] = "done" => ret[t] = "true"
    /\ \A t \in Reporters : pc[t] = "forward" =>
          mErrorStack[Len(mErrorStack)] = PairOf(t)
    /\ \A r \in Reports :
          LET n == Cardinality({ t \in Delivered : PairOf(t) = r })
          IN  IF mUserRecorder
              THEN Occurrences(userLog, r) = n /\ Occurrences(loggerLog, r[2]) = 0
              ELSE Occurrences(loggerLog, r[2]) = n /\ Occurrences(userLog, r) = 0

\* C9 as amended: every reportError returns true, also when push_back or the
\* user recorder throws; a stored pair is the last entry of the list; it
\* reaches the user recorder and not the logger if a user recorder was
\* installed, the logger alone if there is a logger and no user recorder,
\* and no sink if there is neither.
C9_AtMostOneSink ==
    /\ \A t \in Reporters : pc[t] = "done" => ret[t] = "true"
    /\ \A t \in Reporters : pc[t] = "forward" =>
          /\ mErrorStack # <<>>
          /\ mErrorStack[Len(mErrorStack)] = PairOf(t)
    /\ \A r \in Reports :
          LET n == Cardinality({ t \in Delivered : PairOf(t) = r })
          IN  /\ Occurrences(userLog, r) = (IF mUserRecorder THEN n ELSE 0)
              /\ Occurrences(loggerLog, r[2])
                    = (IF ~mUserRecorder /\ mLogger THEN n ELSE 0)

C9_Witness ==
    /\ AllDone
    /\ \E t, u, v \in Reporters :
          /\ t \notin appended
          /\ u \in appended /\ v \in appended /\ u # v
          /\ ret[t] = "true" /\ ret[u] = "true"
          /\ mUserRecorder /\ mLogger
          /\ Occurrences(loggerLog, ExcWhat) = 2

\* ---- the accessors among concurrent reports and clears ----

\* thread t passed the bounds check of getErrorCode or getErrorDesc and is
\* about to read the element
AboutToRead(t) == pc[t] = "read" /\ ~chk[t]

\* thread t returned from getErrorCode or getErrorDesc with an element's part
ReturnedElement(t) ==
    /\ pc[t] = "done"
    /\ call[t].op \in {"getErrorCode", "getErrorDesc"}
    /\ ~chk[t]

\* C22: with reportError and clear running concurrently, the bounds check
\* of an accessor and its read of the element are one step for the list: the
\* index an accessor reads at is below the length the list has at the read,
\* and what it returns is part of an entry of the list, never of an entry
\* that was removed
C22_AccessorCheckAndReadAtomic ==
    \A t \in Threads :
        /\ AboutToRead(t) => ToSizeT(call[t].idx) < Len(mErrorStack)
        /\ ReturnedElement(t) => ret[t] # Undefined[1]


\* ---- the reference count ----

\* the decrements whose thread has not yet looked at the value it got
PendingZero == { t \in Threads : holder[t].pos = "decremented" /\ holder[t].newVal = 0 }

\* create() returned a recorder of count 1, at most once
CreateReturnsOne == counted.created \in { <<>>, <<1>> }

CountIsIncrementsMinusDecrements == mRefCount = counted.incs - counted.decs

\* one deletion at most, by the one decrement that got 0
DeletedOnceAtZero ==
    /\ counted.deletes <= 1
    /\ counted.zeros <= 1
    /\ counted.deletes + Cardinality(PendingZero) = counted.zeros
    /\ (life = "deleted") = (counted.deletes = 1)
    /\ life = "deleted" => mRefCount = 0

\* the user recorder: one increment at construction, one decrement at
\* destruction, none without a user recorder
UserRecorderCounted ==
    /\ counted.userIncs = (IF mUserRecorder /\ life # "unborn" THEN 1 ELSE 0)
    /\ counted.userDecs = (IF mUserRecorder /\ life = "deleted" THEN 1 ELSE 0)
    /\ userRefCount = (IF mUserRecorder THEN 1 ELSE 0) + counted.userIncs - counted.userDecs

\* the counts of the recorder and of the user recorder
ReferenceCounts ==
    /\ CreateReturnsOne
    /\ CountIsIncrementsMinusDecrements
    /\ DeletedOnceAtZero
    /\ UserRecorderCounted

\* destroy() decrements once and leaves its caller a null pointer; on a null
\* pointer it changes nothing
DestroySteps ==
    \A t \in Threads :
        /\ destroy(t) => mRefCount' = mRefCount - 1
        /\ (deleteThis(t) /\ holder[t].via = "destroy") =>
                ~holder'[t].recorder /\ mRefCount' = mRefCount
        /\ destroyNull(t) => UNCHANGED <<mRefCount, life, userRefCount, holder>>

\* C30: create() returns a recorder of reference count 1; under every
\* interleaving of incRefCount and decRefCount the count is the increments
\* minus the decrements, and the recorder is deleted once, by the decRefCount
\* that brings the count to 0; destroy() decrements once and sets the
\* pointer of its caller to null, and does nothing on a null pointer; the
\* count of the user recorder is incremented once at construction and
\* decremented once at destruction, and never without a user recorder
C30_ReferenceCount == []ReferenceCounts /\ [][DestroySteps]_vars

\* the recorder with a user recorder was deleted through destroy() after
\* MaxRefs references were taken and released
C30_DeletedAfterSharing ==
    /\ life = "deleted"
    /\ mUserRecorder
    /\ counted.incs = MaxRefs
    /\ counted.decs = MaxRefs
    /\ counted.deletedVia = "destroy"
    /\ \E t \in Threads : ~holder[t].recorder /\ t # 1

----------------------------------------------------------------------------
\* Properties of the lowering engine

\* a node has been handed to its importer, which has returned
Lowered == phase # "idle"

Failed == Lowered /\ result.status # kSUCCESS

\* the node is a Loop with a trip count n >= 1, no condition and one state
\* variable that its body increments, with any number of scan outputs
\* echoing the updated state
IsCountingLoop ==
    /\ Lowered
    /\ node.op = "Loop"
    /\ Len(node.inputs) = 3
    /\ node.inputs[1].kind = "weights"
    /\ node.inputs[1].dims = <<>>
    /\ node.inputs[1].vals[1] >= 1
    /\ node.inputs[2].kind = "null"
    /\ \E m \in 0..MaxScanOutputs : node.attrs.body = LoopBody(1, m, "inc")

TripCount == node.inputs[1].vals[1]

InitialValue ==
    IF node.inputs[3].kind = "weights" THEN node.inputs[3].vals[1]
    ELSE node.inputs[3].id.val

\* the value of output j of the Loop node once its loop has ended
NodeOutputValue(j) == LoopOutputValue(net, result.outputs[j].id.layer, run)

\* C3: a Loop with trip count n >= 1, no condition and one state variable
\* starting at s whose body adds 1 is lowered to a recurrence graph with
\* one output per declared output; once the loop has run, the last-value
\* output is s + n and every declared scan output is [s+1, ..., s+n]
C3_CountingLoopOutputs ==
    IsCountingLoop =>
        /\ result.status = kSUCCESS
        /\ Len(result.outputs) = Len(node.output)
        /\ phase = "finished" =>
            /\ NodeOutputValue(1) = <<InitialValue + TripCount>>
            /\ \A j \in 2..Len(result.outputs) :
                NodeOutputValue(j) = [i \in 1..TripCount |-> InitialValue + i]

\* C4: a successfully lowered Loop with k state variables and m scan
\* outputs in its body returns k last-value outputs and then m
\* concatenated outputs, and lowering a Loop never reads the body's output
\* list at an index it does not have
C4_LoopReturnsDeclaredOutputs ==
    (Lowered /\ node.op = "Loop") =>
        LET k == Len(node.inputs) - NB_NON_STATE_INPUTS
            m == Len(node.attrs.body.output) - NB_DISCARDED_OUTPUTS - k
        IN  /\ \A i \in result.read : i < Len(node.attrs.body.output)
            /\ result.status = kSUCCESS =>
                /\ Len(result.outputs) = k + m
                /\ \A j \in 1..k :
                    net[result.outputs[j].id.layer].kind = "kLAST_VALUE"
                /\ \A j \in (k + 1)..(k + m) :
                    net[result.outputs[j].id.layer].kind = "kCONCATENATE"

\* the names of the value table are bound to what they were bound to before
SameBindings ==
    /\ DOMAIN tensors = DOMAIN pre.tensors
    /\ \A x \in DOMAIN tensors :
        /\ tensors[x].kind = pre.tensors[x].kind
        /\ tensors[x].id = pre.tensors[x].id
        /\ tensors[x].dims = pre.tensors[x].dims
        /\ tensors[x].dtype = pre.tensors[x].dtype

\* C5: when an importer returns a failure, the network holds the layers and
\* the value table the bindings they held before the importer was invoked
C5_FailedNodeContributesNothing ==
    Failed => net = pre.net /\ SameBindings

\* the LSTM node is one that both LSTM importers lower when input_forget
\* is 0: X of rank 3 and FLOAT, a direction forward or bidirectional, the
\* default activations, no clip, a positive hidden size, no peepholes
SupportedButInputForget ==
    /\ Len(node.inputs[1].dims) = 3
    /\ node.inputs[1].dtype = "FLOAT"
    /\ \/ ~HasAttr(node, "direction")
       \/ node.attrs.direction \in {"forward", "bidirectional"}
    /\ ~HasAttr(node, "activations")
    /\ ~HasAttr(node, "clip")
    /\ node.attrs.hidden_size > 0
    /\ ~Given(node.inputs, 8)

\* C6: an LSTM node with a non-zero input_forget fails with
\* UnsupportedOperator, and no layer has been added when it fails
C6_InputForgetFailsBeforeAnyLayer ==
    (Lowered /\ node.op = "LSTM" /\ AttrGet(node, "input_forget", 0) # 0
        /\ SupportedButInputForget)
        => (result.status = "kUNSUPPORTED_NODE" /\ net = pre.net)

\* the node is a Slice of a tensor whose arguments are constants
IsSliceOfTensor ==
    /\ Lowered
    /\ node.op = "Slice"
    /\ Len(node.inputs) >= 1
    /\ node.inputs[1].kind = "tensor"
    /\ node.opset >= 10 =>
        /\ Len(node.inputs) \in 3..5
        /\ \A i \in 2..Len(node.inputs) : node.inputs[i].kind = "weights"

\* every axis the Slice node slices has start 0, step 1 and an end at or
\* past the extent
IsFullRangeSlice ==
    /\ IsSliceOfTensor
    /\ LET a == SliceArgsOf(node)
           dims == node.inputs[1].dims
           r == Len(dims)
       IN  /\ Len(a.axes) >= 1
           /\ Len(a.starts) = Len(a.axes)
           /\ Len(a.ends) = Len(a.axes)
           /\ Len(a.steps) = Len(a.axes)
           /\ \A i \in 1..Len(a.axes) :
               /\ a.axes[i] \in (-r)..(r - 1)
               /\ a.starts[i] = 0
               /\ a.steps[i] = 1
               /\ a.ends[i] >= dims[((a.axes[i] + r) % r) + 1]

\* C7: a Slice that takes the full range of every axis it slices returns
\* its input tensor and adds no layer
C7_FullRangeSliceIsElided ==
    IsFullRangeSlice =>
        /\ result.status = kSUCCESS
        /\ result.outputs = <<node.inputs[1]>>
        /\ net = pre.net

\* the node is a Gather or TRT_Gather of tensors with INT32 indices
IsGatherOfTensors ==
    /\ Lowered
    /\ node.op \in {"Gather", "TRT_Gather"}
    /\ node.inputs[1].kind = "tensor"
    /\ node.inputs[2].kind = "tensor"
    /\ node.inputs[2].dtype = "INT32"
    /\ Len(node.inputs[1].dims) >= 1

\* the node is an Add to which the legacy broadcast with an axis applies
IsLegacyBroadcast ==
    /\ Lowered
    /\ node.op = "Add"
    /\ node.opset < 7
    /\ Len(node.inputs) = 2
    /\ HasAttr(node, "axis")
    /\ HasAttr(node, "broadcast")
    /\ node.attrs.broadcast # 0
    /\ Len(node.inputs[2].dims) < Len(node.inputs[1].dims)

\* the axes the node resolves against the rank of its first input
AxesOfNode ==
    CASE IsGatherOfTensors -> {AttrGet(node, "axis", 0)}
      [] IsLegacyBroadcast -> {node.attrs.axis}
      [] IsSliceOfTensor ->
            { SliceArgsOf(node).axes[i] : i \in 1..Len(SliceArgsOf(node).axes) }
      [] OTHER -> {}

RankOfNode == Len(node.inputs[1].dims)

\* C10: an axis a is resolved against a rank r to a + r when negative; an
\* axis outside [0, r) after that makes the node fail, an axis of a gather
\* inside it is the axis of the layer, and no layer has an axis outside
\* [0, r)
C10_AxisNormalised ==
    /\ \A i \in 1..Len(net) :
        "axis" \in DOMAIN net[i] => net[i].axis \in 0..(net[i].rank - 1)
    /\ \A a \in AxesOfNode :
        a \notin (-RankOfNode)..(RankOfNode - 1) => result.status # kSUCCESS
    /\ IsGatherOfTensors =>
        LET a == AttrGet(node, "axis", 0)
        IN  a \in (-RankOfNode)..(RankOfNode - 1) =>
                /\ result.status = kSUCCESS
                /\ net[Len(net)].type = "gather"
                /\ net[Len(net)].axis = (a + RankOfNode) % RankOfNode

\* the node is a binary operator lowered with the legacy broadcast, under
\* opset < 7, whose operands differ in rank and whose broadcast attribute
\* is absent or zero
IsLegacyWithoutBroadcast ==
    /\ Lowered
    /\ node.op \in {"Add", "Sub", "Mul", "Div", "Pow"}
    /\ node.opset < 7
    /\ Len(node.inputs) = 2
    /\ Len(node.inputs[1].dims) # Len(node.inputs[2].dims)
    /\ \/ ~HasAttr(node, "broadcast")
       \/ node.attrs.broadcast = 0

\* C11: a binary elementwise node under opset < 7 whose operands differ in
\* rank and whose broadcast attribute is absent or zero fails with
\* UnsupportedOperator; no elementwise layer broadcasts the operands
C11_LegacyNeedsBroadcastFlag ==
    IsLegacyWithoutBroadcast => result.status = "kUNSUPPORTED_NODE"

\* a Transpose node was lowered and the importer returned its output
TransposeSucceeded ==
    /\ Lowered
    /\ node.op = "Transpose"
    /\ result.status = kSUCCESS

\* the permutation of the lowered Transpose node: perm, or the reversal
PermOfNode ==
    LET r == Len(node.inputs[1].dims)
    IN  IF HasAttr(node, "perm") THEN node.attrs.perm ELSE [i \in 1..r |-> r - i]

\* the row-major offset of index m in a buffer of shape dims, summed from
\* dimension d on
RECURSIVE OffsetFrom(_, _, _)
OffsetFrom(dims, m, d) ==
    IF d > Len(dims) THEN 0
    ELSE m[d] * Volume(SubSeq(dims, d + 1, Len(dims))) + OffsetFrom(dims, m, d + 1)

\* out, of the permuted shape, holds at index (m[perm[1]], m[perm[2]], ...)
\* what in holds at index m, for every index m of in
IsTransposeOf(out, in, perm) ==
    /\ Len(out.dims) = Len(in.dims)
    /\ \A d \in 1..Len(in.dims) : out.dims[d] = in.dims[perm[d] + 1]
    /\ Len(out.vals) = Len(in.vals)
    /\ \A m \in [1..Len(in.dims) -> 0..MaxExtent] :
        (\A d \in 1..Len(in.dims) : m[d] < in.dims[d]) =>
            out.vals[OffsetFrom(out.dims, [d \in 1..Len(perm) |-> m[perm[d] + 1]], 1) + 1]
                = in.vals[OffsetFrom(in.dims, m, 1) + 1]

PoolingReached ==
    /\ Lowered
    /\ node.op = "AveragePool"
    /\ Len(node.inputs[1].dims) \in 3..5
    /\ ~(node.opset >= 10 /\ HasAttr(node, "dilations"))

\* the pads of the node, per spatial axis, and its strides
BeginPad(d) == node.attrs.pads[d]

EndPad(d) == node.attrs.pads[(Len(node.attrs.pads) \div 2) + d]

StrideOf(d) == IF HasAttr(node, "strides") THEN node.attrs.strides[d] ELSE 1

PadDifference(d) ==
    IF EndPad(d) >= BeginPad(d) THEN EndPad(d) - BeginPad(d)
    ELSE BeginPad(d) - EndPad(d)

SpatialAxes == 1..(Len(node.attrs.pads) \div 2)

\* a layer after layer i takes the output of layer i and crops it
IsCropped(i) ==
    \E j \in (i + 1)..Len(net) :
        /\ net[j].type \in {"slice", "padding"}
        /\ \E k \in 1..Len(net[j].ins) : net[j].ins[k] = OutputId(i, 1)

\* C13: an AveragePool whose begin and end pad differ by more than one on
\* some spatial axis fails with UnsupportedOperator; otherwise it succeeds
\* with one pooling layer whose begin pad is the node's on every axis of
\* equal pads and the node's plus the stride on every axis whose pads
\* differ by one, and the output of the pooling layer is cropped exactly
\* when some axis has pads that differ by one
C13_AsymmetricPadBecomesCrop ==
    PoolingReached =>
        IF \E d \in SpatialAxes : PadDifference(d) > 1
        THEN result.status = "kUNSUPPORTED_NODE"
        ELSE /\ result.status = kSUCCESS
             /\ \E i \in (Len(pre.net) + 1)..Len(net) :
                 /\ net[i].type = "pooling"
                 /\ \A d \in SpatialAxes :
                     net[i].prePadding[d] =
                         IF PadDifference(d) = 1 THEN BeginPad(d) + StrideOf(d)
                         ELSE BeginPad(d)
                 /\ IsCropped(i) <=> \E d \in SpatialAxes : PadDifference(d) = 1

\* a ConvTranspose node with an output_shape attribute was lowered to a
\* deconvolution layer
DeconvWithOutputShape ==
    /\ Lowered
    /\ node.op = "ConvTranspose"
    /\ HasAttr(node, "output_shape")
    /\ result.status = kSUCCESS

\* the deconvolution layer of the node, and the output padding after it
DeconvLayer ==
    net[CHOOSE i \in (Len(pre.net) + 1)..Len(net) : net[i].type = "deconvolution"]

OutputPadOf(i) ==
    LET pads == { j \in (Len(pre.net) + 1)..Len(net) : net[j].type = "padding" }
        first == Len(DeconvLayer.kernel_size) - 2
    IN  IF pads = {} \/ i <= first THEN 0
        ELSE net[CHOOSE j \in pads : TRUE].postPadding[i - first]

\* extent of spatial axis i of the input of the deconvolution layer
DeconvInputExtent(i) ==
    IF i + 2 <= Len(node.inputs[1].dims) THEN node.inputs[1].dims[i + 2] ELSE 1

DilationOf(i) == IF HasAttr(node, "dilations") THEN node.attrs.dilations[i] ELSE 1

\* the extent of axis i before any padding is taken off or added
UnpaddedExtent(i) ==
    (DeconvInputExtent(i) - 1) * DeconvLayer.strides[i]
        + (DeconvLayer.kernel_size[i] - 1) * DilationOf(i) + 1

\* the total input padding T of axis i that the requested extent asks for
TotalPadding(i) == UnpaddedExtent(i) + OutputPadOf(i) - node.attrs.output_shape[i]

\* the pads of every spatial axis give the requested output extent
PadsInvertOutputSize ==
    \A i \in 1..Len(DeconvLayer.kernel_size) :
        UnpaddedExtent(i) - DeconvLayer.prePadding[i] - DeconvLayer.postPadding[i]
            + OutputPadOf(i) = node.attrs.output_shape[i]

\* C14: with an explicit output shape the pads of the deconvolution layer
\* and the output padding give the requested extent on every spatial axis:
\* (in - 1) * stride + (kernel - 1) * dilation + 1 - begin - end + output_pad
\* = requested; with SAME_UPPER begin = floor(T / 2) and end = T - floor(T / 2),
\* with SAME_LOWER end = floor(T / 2) and begin = T - floor(T / 2)
C14_OutputShapePadsInvertFormula ==
    DeconvWithOutputShape =>
        /\ PadsInvertOutputSize
        /\ \A i \in 1..Len(DeconvLayer.kernel_size) :
            /\ DeconvLayer.paddingMode = "kSAME_UPPER" =>
                /\ DeconvLayer.prePadding[i] = TotalPadding(i) \div 2
                /\ DeconvLayer.postPadding[i] = TotalPadding(i) - (TotalPadding(i) \div 2)
            /\ DeconvLayer.paddingMode = "kSAME_LOWER" =>
                /\ DeconvLayer.postPadding[i] = TotalPadding(i) \div 2
                /\ DeconvLayer.prePadding[i] = TotalPadding(i) - (TotalPadding(i) \div 2)

\* a SpaceToDepth or DepthToSpace node over a tensor [N, C, H, W] was lowered
BlockNodeLowered(op) ==
    /\ Lowered
    /\ node.op = op
    /\ node.inputs[1].kind = "tensor"
    /\ Len(node.inputs[1].dims) = 4

\* C15: SpaceToDepth of [N, C, H, W] with a block size b that divides H and W
\* yields [N, C*b*b, H/b, W/b]; DepthToSpace of [N, C, H, W] with b*b dividing
\* C yields [N, C/(b*b), H*b, W*b]; DepthToSpace after SpaceToDepth with the
\* same block size restores the shape
C15_BlockRearrangementShapes ==
    LET d == node.inputs[1].dims
        b == node.attrs.blocksize
    IN  /\ (BlockNodeLowered("SpaceToDepth") /\ d[3] % b = 0 /\ d[4] % b = 0) =>
            /\ result.status = kSUCCESS
            /\ result.outputs[1].dims = <<d[1], d[2] * b * b, d[3] \div b, d[4] \div b>>
        /\ (BlockNodeLowered("DepthToSpace") /\ d[2] % (b * b) = 0) =>
            /\ result.status = kSUCCESS
            /\ result.outputs[1].dims = <<d[1], d[2] \div (b * b), d[3] * b, d[4] * b>>
        /\ (BlockNodeLowered("DepthToSpace") /\ node.producer # <<>>
                /\ result.status = kSUCCESS) =>
            result.outputs[1].dims = node.producer.inputs[1].dims

----------------------------------------------------------------------------
\* Properties of the table of operator importers

\* the table holds at most one routine per operator name
OneRoutinePerName ==
    \A e1 \in builtin_op_importers, e2 \in builtin_op_importers :
        e1[1] = e2[1] => e1 = e2

\* the last registration was of a name the table already held
DuplicateRegistered == registering # <<>> /\ ~registering.inserted

\* C16: the table holds at most one routine per operator name; a
\* registration of a new name has inserted its routine; a registration of a
\* name already present has left the table's routine for it in place and has
\* ended the process
C16_DuplicateRegistrationIsFatal ==
    /\ OneRoutinePerName
    /\ (registering # <<>> /\ registering.inserted) =>
        <<registering.op, registering.importer>> \in builtin_op_importers
    /\ DuplicateRegistered =>
        /\ registering.op \in RegisteredOps
        /\ aborted

\* a registration never removes or replaces an entry of the table
TableOnlyGrows ==
    [][builtin_op_importers \subseteq builtin_op_importers']_vars

----------------------------------------------------------------------------
\* Properties of the run of a lowered Loop

\* the loop of a Loop node is running or has ended
LoopRan == phase \in {"running", "finished"}

\* the Loop node has a trip count
HasTripCount == node.inputs[1].kind # "null"

\* the loop has run no more iterations than the trip count
WithinTripCount ==
    (LoopRan /\ HasTripCount) =>
        run.iter <= IF node.inputs[1].kind = "weights" THEN TripCount
                    ELSE node.inputs[1].id.val

\* the body computed a false condition in the iteration that just ended
BodySaidStop == phase = "running" /\ run.iter >= 1 /\ run.cond = 0

\* C17: a lowered Loop runs no more iterations than its trip count, and
\* runs no further iteration once the body has computed a false condition
C17_LoopStopsAtFirstLimit ==
    [][WithinTripCount' /\ (BodySaidStop => run'.iter = run.iter)]_vars

----------------------------------------------------------------------------
\* Properties of the lowering of Loop and Scan bodies

\* the lowering of the body of a Loop or Scan node began
BodyLoweringBegan ==
    /\ Lowered
    /\ node.op \in {"Loop", "Scan"}
    /\ result.atBody # <<>>

\* the k-th layer of a type of the lowered loop, in order of creation
NthLayer(type, k) ==
    CHOOSE j \in LoopLayers(net, LoweredLoop, type) :
        Cardinality({ x \in LoopLayers(net, LoweredLoop, type) : x <= j }) = k

\* body input i was bound to the output of the k-th layer of a type when the
\* body's lowering began
BoundToLayer(i, type, k) ==
    LET name == node.attrs.body.input[i]
    IN  /\ name \in DOMAIN result.atBody
        /\ Cardinality(LoopLayers(net, LoweredLoop, type)) >= k
        /\ result.atBody[name].kind = "tensor"
        /\ result.atBody[name].id = OutputId(NthLayer(type, k), 1)

\* body input i was bound to a tensor made inside the loop
BoundInsideLoop(i) ==
    LET name == node.attrs.body.input[i]
    IN  /\ name \in DOMAIN result.atBody
        /\ result.atBody[name].kind = "tensor"
        /\ result.atBody[name].id.layer > LoweredLoop

\* the state variables of the node
NbStateVars ==
    IF node.op = "Loop" THEN Len(node.inputs) - NB_NON_STATE_INPUTS
    ELSE Len(node.inputs) - node.attrs.num_scan_inputs

ScanBodyInputsBound ==
    \A i \in 1..Len(node.attrs.body.input) :
        IF i <= NbStateVars THEN BoundToLayer(i, "recurrence", i)
        ELSE BoundToLayer(i, "iterator", i - NbStateVars)

LoopBodyInputsBound ==
    \A i \in 1..Len(node.attrs.body.input) :
        IF i <= NB_NON_STATE_INPUTS THEN BoundInsideLoop(i)
        ELSE BoundToLayer(i, "recurrence", i - NB_NON_STATE_INPUTS)

\* C18: when the lowering of the body of a Loop or Scan begins every input
\* name of the body is bound: for Scan to the outputs of the recurrences of
\* the state variables and then to the outputs of the iterators, by
\* position; for Loop the first two (iteration number and condition) to
\* tensors of the loop and the others to the outputs of the recurrences
C18_BodyInputsBoundBeforeBody ==
    BodyLoweringBegan =>
        IF node.op = "Scan" THEN ScanBodyInputsBound ELSE LoopBodyInputsBound

\* Properties of the recurrences of Loop, Scan, LSTM and GRU

\* the layers the lowering of the node added
NodeLayers == (Len(pre.net) + 1)..Len(net)

\* the recurrence layers the lowering of the node added
Recurrences == { i \in NodeLayers : net[i].type = "recurrence" }

\* the k-th of them, in order of creation
NthRecurrence(k) ==
    CHOOSE i \in Recurrences : Cardinality({ x \in Recurrences : x <= i }) = k

\* the last-value loop outputs of recurrence i
LastValueOutputs(i) ==
    { j \in NodeLayers : /\ net[j].type = "loop_output"
                         /\ net[j].kind = "kLAST_VALUE"
                         /\ net[j].ins[1] = OutputId(i, 1) }

\* the update of recurrence i was bound once, and before any last-value
\* output of it was made
UpdateBoundOnce(i) ==
    /\ Len(net[i].updates) = 1
    /\ net[i].ins = <<net[i].ins[1], net[i].updates[1].id>>
    /\ \A j \in LastValueOutputs(i) : net[i].updates[1].at < j

\* the tensor is the value v as a tensor: v itself, or the constant made of it
IsTensorOf(id, v) ==
    IF v.kind = "tensor" THEN id = v.id
    ELSE /\ net[id.layer].type = "constant"
         /\ net[id.layer].vals = v.vals

\* recurrence k of a Loop or Scan is updated by the body output at position
\* k + skipped (from 1)
UpdatedByBodyOutput(k, skipped) ==
    LET name == node.attrs.body.output[k + skipped]
    IN  /\ name \in DOMAIN tensors
        /\ IsTensorOf(net[NthRecurrence(k)].updates[1].id, tensors[name])

\* H(t) of an LSTM or GRU: what the first output, Y, concatenates
HiddenAtT == net[result.outputs[1].id.layer].ins[1]

\* C(t) of an LSTM: H(t) = o(t) . h(C(t))
CellAtT == net[net[HiddenAtT.layer].ins[2].layer].ins[1]

\* each recurrence is updated by what the operator says updates it
UpdatesAreTheNextStates ==
    CASE node.op = "Loop" ->
            \A k \in 1..Cardinality(Recurrences) : UpdatedByBodyOutput(k, NB_DISCARDED_OUTPUTS)
      [] node.op = "Scan" ->
            \A k \in 1..Cardinality(Recurrences) : UpdatedByBodyOutput(k, 0)
      [] node.op = "LSTM" ->
            Recurrences # {} =>
                /\ Cardinality(Recurrences) = 2
                /\ net[NthRecurrence(1)].updates[1].id = HiddenAtT
                /\ net[NthRecurrence(2)].updates[1].id = CellAtT
                /\ result.outputs[2].id.layer \in LastValueOutputs(NthRecurrence(1))
                /\ result.outputs[3].id.layer \in LastValueOutputs(NthRecurrence(2))
      [] OTHER ->
            /\ Cardinality(Recurrences) = 1
            /\ net[NthRecurrence(1)].updates[1].id = HiddenAtT
            /\ result.outputs[2].id.layer \in LastValueOutputs(NthRecurrence(1))

RecurrentNodeLowered ==
    /\ Lowered
    /\ node.op \in {"Loop", "Scan", "LSTM", "GRU"}
    /\ result.status = kSUCCESS

\* C19: after a successful lowering of a Loop, Scan, LSTM or GRU node every
\* recurrence made for the node has its update bound exactly once, before
\* the last-value loop output of that state is made; state i of a Loop is
\* updated by body output i + 1, state i of a Scan by body output i, the
\* hidden and cell states of an LSTM by H(t) and C(t), the hidden state of
\* a GRU by H(t)
C19_RecurrenceUpdatesBoundOnce ==
    RecurrentNodeLowered =>
        /\ \A i \in Recurrences : UpdateBoundOnce(i)
        /\ UpdatesAreTheNextStates

\* a Loop, a Scan, an LSTM and a GRU were lowered with recurrences
C19_LoopRecurrencesBound ==
    RecurrentNodeLowered /\ node.op = "Loop" /\ Cardinality(Recurrences) >= 2

C19_ScanRecurrencesBound ==
    RecurrentNodeLowered /\ node.op = "Scan" /\ Cardinality(Recurrences) >= 2

C19_LSTMRecurrencesBound ==
    RecurrentNodeLowered /\ node.op = "LSTM" /\ Cardinality(Recurrences) = 2

C19_GRURecurrencesBound ==
    RecurrentNodeLowered /\ node.op = "GRU" /\ Cardinality(Recurrences) = 1

\* Properties of the importers that call helpers and other importers

\* a helper or nested importer the lowering of the node called reported a
\* failure
HelperFailed ==
    /\ Lowered
    /\ "helpers" \in DOMAIN result
    /\ \E i \in 1..Len(result.helpers) : result.helpers[i] # kSUCCESS

\* the importer returned a failure and no outputs
ReturnedFailure == result.status # kSUCCESS /\ result.outputs = <<>>

\* C20: when a helper or a nested importer reports a failure the importer
\* that called it returns a failure and no result: the lowering of the body
\* in Loop and Scan, Softmax in LogSoftmax, the nested importers of
\* ReduceLogSum, ReduceLogSumExp and ReduceL2, and the conversion of the
\* starts, ends, axes and steps of Slice; a Slice of opset 10 or later
\* whose starts or ends is a tensor fails
C20_HelperFailurePropagates == HelperFailed => ReturnedFailure

\* the same without Slice
NestedFailurePropagates == (HelperFailed /\ node.op # "Slice") => ReturnedFailure

\* ---- the buffers of the weights an importer was given ----

\* what the buffers of the node's inputs hold when its importer returned
InputsAtReturn == IF "inputs" \in DOMAIN result THEN result.inputs ELSE node.inputs

\* every weights input holds the values it held when the importer was called
InputBuffersKept ==
    \A i \in 1..Len(node.inputs) :
        node.inputs[i].kind = "weights" => InputsAtReturn[i].vals = node.inputs[i].vals

\* the legacy LSTM importer, given the node again with the buffers as it left
\* them, builds from the network before the node the layers it built then
SecondLoweringEmitsTheSame ==
    "inputs" \in DOMAIN result =>
        lstmLegacyImporter(pre, [node EXCEPT !.inputs = result.inputs]).net = net

\* C21: no importer writes to the buffer of a weights value it was given:
\* when it returns, with success or failure, every weights input holds what
\* it held before; the legacy LSTM importer given a constant initial_h or
\* initial_c leaves it as it was, so that lowering the node again emits the
\* same constant layers
C21_InputWeightsNeverWritten ==
    Lowered => InputBuffersKept /\ SecondLoweringEmitsTheSame

\* the legacy LSTM importer was given a constant initial state
LegacyWithConstantState ==
    /\ Lowered
    /\ "inputs" \in DOMAIN result
    /\ Len(node.inputs) >= 7
    /\ node.inputs[6].kind = "weights"

\* with one direction the transpose of [1, batch, hidden] to [batch, 1, hidden]
\* moves no value, and the buffers are left as they were
ForwardLegacyKeepsBuffers ==
    (LegacyWithConstantState /\ NumDirections(AttrGet(node, "direction", "forward")) = 1)
        => InputBuffersKept /\ SecondLoweringEmitsTheSame

\* every importer but the legacy LSTM importer leaves the buffers alone
OthersKeepBuffers ==
    (Lowered /\ "inputs" \notin DOMAIN result) => InputBuffersKept

\* ---- the order of Y for a reverse LSTM or GRU ----

\* the position along the sequence that iteration k of T (from 0) stands
\* for: an iterator reads there, a concatenated loop output writes there;
\* a reversed iterator and a kREVERSE output count from the end
IterationPosition(reversed, k, T) == IF reversed THEN T - 1 - k ELSE k

\* the iterators over X that the lowering of the node added
Iterators == { i \in NodeLayers : net[i].type = "iterator" }

\* the loop output that makes Y
YLayer == result.outputs[1].id.layer

\* the slice of Y at every position holds the hidden state of the iteration
\* in which iterator i read that position of X
YFollows(i) ==
    LET T == node.inputs[1].dims[1]
    IN  \A k \in 0..(T - 1) :
            IterationPosition(net[YLayer].kind = "kREVERSE", k, T)
                = IterationPosition(net[i].reverse, k, T)

\* C23: for an LSTM or GRU of direction reverse, and for the reverse half of
\* a bidirectional one, the slice of Y at sequence position t is the hidden
\* state of the step that consumed position t of the input, as it is in the
\* forward direction
C23_ReverseYIndexedByTimeStep ==
    RecurrentNodeLowered =>
        \A i \in Iterators : (node.op \in {"LSTM", "GRU"} /\ net[i].reverse) => YFollows(i)

\* the same for the forward direction and the forward half
ForwardYIndexedByTimeStep ==
    RecurrentNodeLowered =>
        \A i \in Iterators : (node.op \in {"LSTM", "GRU"} /\ ~net[i].reverse) => YFollows(i)

\* a forward LSTM or GRU was lowered over a sequence of two steps or more
ForwardSequenceLowered ==
    /\ RecurrentNodeLowered
    /\ node.op \in {"LSTM", "GRU"}
    /\ node.inputs[1].dims[1] >= 2
    /\ \E i \in Iterators : ~net[i].reverse

\* ---- Slice with an empty extent ----

\* sliceStart, sliceSize and sliceStride after the loop over the axes
SlicedExtents ==
    LET dims == node.inputs[1].dims
    IN  SliceAxes(SliceArgsOf(node), dims, 1,
                  [status |-> kSUCCESS, start |-> Zeros(Len(dims)), size |-> dims,
                   stride |-> Ones(Len(dims))])

\* the axis, counted from 1, that the i-th entry of axes names
SlicedAxis(i) == convert_axis(SliceArgsOf(node).axes[i], Len(node.inputs[1].dims)).axis + 1

\* the Slice has valid axes and steps, and the size it computes is 0 along
\* an axis it slices
HasEmptyExtent ==
    /\ IsSliceOfTensor
    /\ SlicedExtents.status = kSUCCESS
    /\ \E i \in 1..Len(SliceArgsOf(node).axes) : SlicedExtents.size[SlicedAxis(i)] = 0

\* C24: a Slice whose computed size is 0 along an axis it slices fails with
\* an invalid-value error, whatever the axes list and the rank of the input:
\* no slice layer with a zero extent is emitted and the input tensor is not
\* returned in its place
C24_EmptySliceRejected ==
    HasEmptyExtent => result.status = "kINVALID_VALUE"

\* the computed size is 0 on every axis of the input
EveryExtentEmpty == \A d \in DOMAIN SlicedExtents.size : SlicedExtents.size[d] = 0

\* the size 0 is found at one of the first Len(axes) axes of the input
EmptyAmongFirstAxes ==
    \E d \in 1..Len(SliceArgsOf(node).axes) : SlicedExtents.size[d] = 0

\* an empty extent is rejected when it is among the first Len(axes) axes and
\* the other extents are not all empty too
EmptyLeadingExtentRejected ==
    (HasEmptyExtent /\ EmptyAmongFirstAxes /\ ~EveryExtentEmpty)
        => result.status = "kINVALID_VALUE"

\* ---- the shape the legacy broadcast gives the right operand ----

\* the layer that holds the right operand as the elementwise layer takes it:
\* the shuffle that reshapes it, or the constant made of it
ReshapedRight ==
    CHOOSE i \in NodeLayers :
        IF node.inputs[2].kind = "tensor"
        THEN net[i].type = "shuffle" /\ net[i].ins = <<node.inputs[2].id>>
        ELSE net[i].type = "constant"

\* the axis attribute of the node, counted from the front of the left operand
LegacyAxis ==
    IF node.attrs.axis < 0 THEN node.attrs.axis + RankOfNode ELSE node.attrs.axis

\* the right operand of rank q fits at the axis into the rank of the left
LegacyAxisFits == LegacyAxis >= 0 /\ LegacyAxis + Len(node.inputs[2].dims) <= RankOfNode

\* C25: the legacy broadcast of a right operand of rank q < R against a left
\* operand of rank R gives the right operand rank R: ones before the
\* normalised axis, its own dimensions in order, ones up to rank R; an axis
\* with which this is impossible (axis + q > R, or an axis still negative
\* after R was added) is rejected, so the new shape never exceeds rank R
C25_LegacyBroadcastShape ==
    IsLegacyBroadcast =>
        IF LegacyAxisFits
        THEN /\ result.status = kSUCCESS
             /\ net[ReshapedRight].dims =
                    Ones(LegacyAxis) \o node.inputs[2].dims
                        \o Ones(RankOfNode - Len(node.inputs[2].dims) - LegacyAxis)
        ELSE result.status # kSUCCESS

\* the same for the axes that are not negative after normalisation
LegacyBroadcastShapeFromFront ==
    (IsLegacyBroadcast /\ LegacyAxis >= 0) =>
        IF LegacyAxisFits
        THEN /\ result.status = kSUCCESS
             /\ net[ReshapedRight].dims =
                    Ones(LegacyAxis) \o node.inputs[2].dims
                        \o Ones(RankOfNode - Len(node.inputs[2].dims) - LegacyAxis)
        ELSE result.status # kSUCCESS

\* ---- what a lowered Scan returns ----

ScanSucceeded == Lowered /\ node.op = "Scan" /\ result.status = kSUCCESS

\* the number of state variables of the Scan node
ScanStates == Len(node.inputs) - node.attrs.num_scan_inputs

\* an attribute of the Scan node that gives a number for each of count scan
\* inputs or outputs, 0 when left out
ScanAttr(name, count) == AttrGet(node, name, Zeros(count))

\* the i-th iterator the lowering of the node added
NthIterator(i) ==
    CHOOSE x \in Iterators : Cardinality({ y \in Iterators : y <= x }) = i

\* the layer that makes output j of the node
OutputLayer(j) == net[result.outputs[j].id.layer]

\* output j of the node is the last value of state variable j
IsLastValueOfState(j) ==
    /\ OutputLayer(j).type = "loop_output"
    /\ OutputLayer(j).kind = "kLAST_VALUE"
    /\ OutputLayer(j).ins[1] = OutputId(NthRecurrence(j), 1)

\* output ScanStates + j of the node accumulates body output ScanStates + j
\* along its axis, appending when its direction is 0, prepending when 1
IsAccumulated(j) ==
    LET o == Len(node.output) - ScanStates
        L == OutputLayer(ScanStates + j)
    IN  /\ L.type = "loop_output"
        /\ L.kind = (IF ScanAttr("scan_output_directions", o)[j] = 0
                     THEN "kCONCATENATE" ELSE "kREVERSE")
        /\ L.axis = ScanAttr("scan_output_axes", o)[j]
        /\ IsTensorOf(L.ins[1], tensors[node.attrs.body.output[ScanStates + j]])

\* scan input i is iterated along its axis, in reverse when its direction is 1
IsIterated(i) ==
    LET m == node.attrs.num_scan_inputs
        L == net[NthIterator(i)]
    IN  /\ IsTensorOf(L.ins[1], node.inputs[ScanStates + i])
        /\ L.axis = ScanAttr("scan_input_axes", m)[i]
        /\ L.reverse = (ScanAttr("scan_input_directions", m)[i] = 1)

\* the trip limit of the loop counts up to the length of a scan input along
\* the axis declared for it
TripCountIsSequenceLength ==
    \E t \in NodeLayers :
        /\ net[t].type = "trip_limit"
        /\ net[t].kind = "kCOUNT"
        /\ LET a == net[net[t].ins[1].layer]
           IN  /\ a.type = "axis_length"
               /\ \E i \in 1..node.attrs.num_scan_inputs :
                    /\ IsTensorOf(a.ins[1], node.inputs[ScanStates + i])
                    /\ a.axis = ScanAttr("scan_input_axes", node.attrs.num_scan_inputs)[i]

\* C26: a successfully lowered Scan with N state variables returns one
\* output for each declared output of the node: the N last values of the
\* states, then each scan output accumulated along its declared axis, in
\* iteration order when its direction is 0 and in reverse when it is 1; scan
\* input i is iterated along scan_input_axes[i], in reverse exactly when
\* scan_input_directions[i] is 1; the trip count is the length of a scan
\* input along its declared axis
C26_ScanOutputsAndIteration ==
    ScanSucceeded =>
        /\ Len(result.outputs) = Len(node.output)
        /\ \A j \in 1..ScanStates : IsLastValueOfState(j)
        /\ \A j \in 1..(Len(node.output) - ScanStates) : IsAccumulated(j)
        /\ Cardinality(Iterators) = node.attrs.num_scan_inputs
        /\ \A i \in 1..node.attrs.num_scan_inputs : IsIterated(i)
        /\ TripCountIsSequenceLength

\* a Scan with two states, two scan inputs taken along different axes in
\* different directions and two scan outputs of different directions was
\* lowered
C26_MixedScanLowered ==
    /\ ScanSucceeded
    /\ ScanStates = 2
    /\ node.attrs.num_scan_inputs = 2
    /\ Len(node.output) = 4
    /\ "scan_input_axes" \in DOMAIN node.attrs
    /\ node.attrs.scan_input_axes = <<1, 0>>
    /\ node.attrs.scan_input_directions = <<0, 1>>
    /\ node.attrs.scan_output_directions = <<1, 0>>

\* ---- the elementwise helper ----

\* the node is lowered by combineTensorsElementwise
IsElementwiseNode == Lowered /\ node.op \in {"Add", "Div", "Mul", "Pow", "Sub"}

\* the elementwise and the identity layers the lowering of the node added
ElementwiseLayers == { i \in NodeLayers : net[i].type = "elementwise" }

IdentityLayers == { i \in NodeLayers : net[i].type = "identity" }

NthElementwise(j) ==
    CHOOSE x \in ElementwiseLayers : Cardinality({ y \in ElementwiseLayers : y <= x }) = j

\* the tensor is operand v as a tensor: the tensor v itself, or the output
\* of the constant layer the lowering made of it
OperandAsTensor(id, v) ==
    IF v.kind = "tensor" THEN id = v.id
    ELSE /\ id.layer \in NodeLayers
         /\ net[id.layer].type = "constant"
         /\ net[id.layer].vals = v.vals

\* the tensor is operand v brought to rank R: v as a tensor when it has rank
\* R, else a reshape of it to its shape with leading ones
OperandPadded(id, v, R) ==
    IF Len(v.dims) = R THEN OperandAsTensor(id, v)
    ELSE /\ id.layer \in NodeLayers
         /\ net[id.layer].type = "shuffle"
         /\ net[id.layer].dims = Ones(R - Len(v.dims)) \o v.dims
         /\ OperandAsTensor(net[id.layer].ins[1], v)

\* n - 1 binary layers folded from the left over the n padded operands
FoldedLeftToRight ==
    LET n == Len(node.inputs)
        R == MaxRankOf(node.inputs)
    IN  /\ Cardinality(ElementwiseLayers) = n - 1
        /\ \A j \in 1..(n - 1) :
            /\ IF j = 1 THEN OperandPadded(net[NthElementwise(1)].ins[1], node.inputs[1], R)
               ELSE net[NthElementwise(j)].ins[1] = OutputId(NthElementwise(j - 1), 1)
            /\ OperandPadded(net[NthElementwise(j)].ins[2], node.inputs[j + 1], R)
        /\ Len(result.outputs) = 1
        /\ result.outputs[1].id = OutputId(NthElementwise(n - 1), 1)

\* one identity layer over the only operand, whose output is returned
WrappedInIdentity ==
    /\ Cardinality(IdentityLayers) = 1
    /\ ElementwiseLayers = {}
    /\ \A i \in IdentityLayers :
        /\ OperandAsTensor(net[i].ins[1], node.inputs[1])
        /\ result.outputs = <<Tensor(OutputId(i, 1), net[i].dims, net[i].dtype)>>
    /\ result.outputs[1].id # node.inputs[1].id

\* what the helper does with the operands of the node
ElementwiseAsStated ==
    CASE Len(node.inputs) = 0 -> result.status # kSUCCESS
      [] Len(node.inputs) = 1 -> result.status = kSUCCESS /\ WrappedInIdentity
      [] OTHER -> result.status = kSUCCESS /\ FoldedLeftToRight

UnsqueezeLowered == Lowered /\ node.op = "Unsqueeze"

UnsqueezeRank == Len(node.inputs[1].dims)

UnsqueezeAxesSet == { node.attrs.axes[k] : k \in 1..Len(node.attrs.axes) }

UnsqueezeOutRank == UnsqueezeRank + Cardinality(UnsqueezeAxesSet)

AxesInRange == \A a \in UnsqueezeAxesSet : 0 <= a /\ a < UnsqueezeOutRank

\* the loop stayed within the input shape, the output shape and the order
PlacementInBounds ==
    /\ \A i \in result.loop.read : i < UnsqueezeRank
    /\ \A k \in result.loop.wrote \cup result.loop.ordered : k < UnsqueezeOutRank

UnsqueezeLayer == net[result.outputs[1].id.layer]

\* the order of the second transpose names every position once
OrderIsPermutation ==
    { UnsqueezeLayer.secondTranspose[k] : k \in 1..UnsqueezeOutRank }
        = 0..(UnsqueezeOutRank - 1)

\* the positions (0-based) of the output that are not among the axes
KeptPositions == (0..(UnsqueezeOutRank - 1)) \ UnsqueezeAxesSet

NthKept(k) ==
    CHOOSE p \in KeptPositions : Cardinality({ q \in KeptPositions : q <= p }) = k

\* extent 1 at the axes, the extents of the input in their order elsewhere
OnesExactlyAtAxes ==
    LET out == result.outputs[1].dims
    IN  /\ Len(out) = UnsqueezeOutRank
        /\ \A a \in UnsqueezeAxesSet : (a + 1) \in DOMAIN out /\ out[a + 1] = 1
        /\ Cardinality(KeptPositions) = UnsqueezeRank
        /\ [k \in 1..UnsqueezeRank |-> out[NthKept(k) + 1]] = node.inputs[1].dims

UnsqueezeAsStated ==
    /\ PlacementInBounds
    /\ result.status = kSUCCESS => OrderIsPermutation /\ OnesExactlyAtAxes
    /\ ~AxesInRange => result.status # kSUCCESS

\* C28: for Unsqueeze of an input of rank r with the set of axes A the
\* loop reads the input shape only below r and writes the output shape and
\* the order only below r + |A|; on success the order of the second transpose
\* is a permutation of 0 .. r + |A| - 1 and the output has extent 1 exactly at
\* the axes with the extents of the input in their order elsewhere; an axis
\* outside [0, r + |A|) is rejected
C28_UnsqueezePlacement ==
    UnsqueezeLowered => UnsqueezeAsStated

\* the same for axes that are all within [0, r + |A|)
UnsqueezeInRangeAsStated ==
    (UnsqueezeLowered /\ AxesInRange) => UnsqueezeAsStated

\* two axes in range were placed around the axes of a constant
UnsqueezeInRangeLowered ==
    /\ UnsqueezeLowered
    /\ result.status = kSUCCESS
    /\ UnsqueezeAxesSet = {0, 2}
    /\ node.inputs[1].kind = "weights"

\* ---- Gemm ----

GemmLowered == Lowered /\ node.op = "Gemm"

GemmFastPathTaken ==
    /\ GemmLowered
    /\ result.status = kSUCCESS
    /\ net[result.outputs[1].id.layer].type = "fullyconnected"

GemmTransA == AttrGet(node, "transA", 0) # 0

GemmTransB == AttrGet(node, "transB", 0) # 0

\* what a fully connected layer computes: output o is the sum over the
\* flattened input of kernel[o][k] * input[k], plus bias[o]; the layer is
\* valid when the kernel has nbOutputs rows of as many values as the input
FullyConnectedMeaning(L) ==
    LET ins == Volume(L.shapes[1])
        outs == L.nbOutputs
    IN  [valid |-> Len(L.kernel.vals) = outs * ins /\ Len(L.bias.vals) = outs,
         ins |-> ins,
         outs |-> outs,
         coef |-> [o \in 0..(outs - 1) |-> [k \in 0..(ins - 1) |->
                     IF o * ins + k + 1 \in DOMAIN L.kernel.vals
                     THEN L.kernel.vals[o * ins + k + 1] ELSE 0]],
         bias |-> [o \in 0..(outs - 1) |->
                     IF o + 1 \in DOMAIN L.bias.vals THEN L.bias.vals[o + 1] ELSE 0]]

\* what a matrix multiplication of A (a tensor) by the constant B, plus the
\* constant c of one dimension, computes, in the same terms: A is read as a
\* vector, as a matrix or as a transposed matrix of shape adims
MatMulMeaning(adims, opA, B, opB, c) ==
    LET M == IF opA = "kVECTOR" THEN 1 ELSE MatrixRows(adims, opA)
        KA == IF opA = "kVECTOR" THEN adims[1] ELSE MatrixCols(adims, opA)
        KB == IF opB = "kVECTOR" THEN B.dims[1] ELSE MatrixRows(B.dims, opB)
        N == IF opB = "kVECTOR" THEN 1 ELSE MatrixCols(B.dims, opB)
        Lc == Len(c.vals)
        W == Max(N, Lc)
        AIndex(m, k) ==
            CASE opA = "kVECTOR" -> k
              [] opA = "kNONE" -> m * adims[2] + k
              [] OTHER -> k * adims[2] + m
        BValue(k, n) ==
            CASE opB = "kVECTOR" -> B.vals[k + 1]
              [] opB = "kNONE" -> B.vals[k * B.dims[2] + n + 1]
              [] OTHER -> B.vals[n * B.dims[2] + k + 1]
        Column(o) == IF N = 1 THEN 0 ELSE o % W
    IN  [valid |-> KA = KB /\ (N = Lc \/ N = 1 \/ Lc = 1),
         ins |-> Volume(adims),
         outs |-> M * W,
         coef |-> [o \in 0..(M * W - 1) |-> [a \in 0..(Volume(adims) - 1) |->
                     IF KA = KB /\ \E k \in 0..(KA - 1) : AIndex(o \div W, k) = a
                     THEN BValue(CHOOSE k \in 0..(KA - 1) : AIndex(o \div W, k) = a, Column(o))
                     ELSE 0]],
         bias |-> [o \in 0..(M * W - 1) |-> IF Lc = 1 THEN c.vals[1] ELSE c.vals[(o % W) + 1]]]

\* what the matrix multiplication layer L of the network n computes
MatMulLayerMeaning(n, L) ==
    MatMulMeaning(L.shapes[1], L.opA, n[L.ins[2].layer], L.opB, node.inputs[3])

GemmMeaningOf(g) ==
    IF g.status # kSUCCESS
    THEN [valid |-> FALSE, ins |-> 0, outs |-> 0, coef |-> <<>>, bias |-> <<>>]
    ELSE MatMulLayerMeaning(g.net, g.net[CHOOSE i \in DOMAIN g.net : g.net[i].type = "matmul"])

\* what the matrix multiplication path makes of the node
GemmGeneralMeaning == GemmMeaningOf(gemmMatrixMultiply(pre, node))

GemmFastMeaning == FullyConnectedMeaning(net[result.outputs[1].id.layer])

\* both paths are valid or neither is, and valid paths compute the same
FastPathAgrees ==
    /\ GemmFastMeaning.valid = GemmGeneralMeaning.valid
    /\ GemmFastMeaning.valid => GemmFastMeaning = GemmGeneralMeaning

\* the kernel of the layer is B transposed when transB is unset, else B
KernelTransposedIffTransBUnset ==
    net[result.outputs[1].id.layer].kernel
        = IF GemmTransB THEN node.inputs[2]
          ELSE transposeWeights(node.inputs[2], <<1, 0>>).result

\* C29: Gemm takes the fully connected path only when that path computes
\* what the matrix multiplication path computes for the same attributes: the
\* constant B is transposed exactly when transB is unset, and the path is not
\* taken when transA is set
C29_GemmFastPathEquivalent ==
    GemmFastPathTaken =>
        /\ KernelTransposedIffTransBUnset
        /\ ~GemmTransA
        /\ FastPathAgrees

\* the part about B alone
GemmFastPathTransposesB ==
    GemmFastPathTaken => KernelTransposedIffTransBUnset

\* the columns of B as the attributes read it
GemmColumnsOfB == IF GemmTransB THEN node.inputs[2].dims[1] ELSE node.inputs[2].dims[2]

GemmRowsOfB == IF GemmTransB THEN node.inputs[2].dims[2] ELSE node.inputs[2].dims[1]

\* A holds one row of as many values as B has rows, C one value for each
\* column of B
GemmOfOneRow ==
    /\ Volume(node.inputs[1].dims) = GemmRowsOfB
    /\ Len(node.inputs[3].vals) = GemmColumnsOfB

\* the fully connected path with transA unset over one row
GemmFastPathAgreesWithoutTransA ==
    (GemmFastPathTaken /\ ~GemmTransA /\ GemmOfOneRow)
        => FastPathAgrees /\ GemmFastMeaning.valid

\* the fully connected path taken with transA set, where A transposed has
\* another shape than A
GemmFastPathWithTransA ==
    /\ GemmFastPathTaken
    /\ GemmTransA
    /\ node.inputs[1].dims = <<1, 2, 1>>
====
